---- MODULE Spec2Model ----
(***************************************************************************)
(* Verification model of the @osd/optimizer bundle cache and compiler      *)
(* orchestration: Bundle.createCacheKey, the bundle cache store, the cache *)
(* decision made by getBundleCacheEvent$ and the per-bundle event protocol *)
(* of observeCompiler / runCompilers.                                      *)
(***************************************************************************)
EXTENDS Integers, Sequences, FiniteSets, TLC

(***************************************************************************)
(* Bounds                                                                  *)
(***************************************************************************)
\* number of distinct file paths on disk; a path is its rank in ascending order
NumFiles == 2
\* longest `files` list handed to cache.set / createCacheKey
MaxFiles == 2
\* longest stored bundleRefExportIds list
MaxRefs == 1
\* passes webpack starts, all bundles together
MaxPasses == 3
\* done hooks with needAdditionalPass, per bundle
MaxAdditionalPasses == 1
\* longest module list of the stats in ClassifyStats
MaxModules == 2
\* longest bundle list handed to parseBundles, beside the lists of one element
MaxSpecs == 2

(***************************************************************************)
(* Values                                                                  *)
(***************************************************************************)
\* the JavaScript value `undefined`
Undefined == "undefined"

Files == 1..NumFiles

\* content hashes of a file that exists
Hashes == {"h1", "h2"}

\* what hashes.get(path) can return
HashVals == Hashes \cup {Undefined}

\* optimizer cache keys: the one of the tests and an outdated one
OptimizerCacheKeys == {"optimizerCacheKey", "old"}

\* export ids of cross-bundle references
ExportIds == {"a", "b"}

\* bundles handled by a worker
Bundles == {"foo", "bar"}

\* config.bundles of the optimizer in the cache decision (pluginPaths: [plugins/foo])
OptimizerBundles == {"foo"}

\* sequences over S of length at most n
RECURSIVE SeqsUpTo(_, _)
SeqsUpTo(S, n) ==
  IF n = 0 THEN {<<>>}
  ELSE LET shorter == SeqsUpTo(S, n - 1)
       IN shorter \cup {Append(s, x) : s \in {t \in shorter : Len(t) = n - 1}, x \in S}

Range(s) == {s[i] : i \in 1..Len(s)}

(***************************************************************************)
(* Bundle (src/unnamed/part_000)                                           *)
(***************************************************************************)
\* the BundleSpec each Bundle was constructed from; manifestPath 0 is "no manifest"
BundleSpecOf(b) ==
  [type |-> "plugin",
   id |-> b,
   publicDirNames |-> <<"public">>,
   contextDir |-> IF b = "foo" THEN "/repo/plugins/foo" ELSE "/repo/plugins/bar",
   sourceRoot |-> "/repo",
   outputDir |-> IF b = "foo" THEN "/repo/plugins/foo/target/public"
                 ELSE "/repo/plugins/bar/target/public",
   manifestPath |-> IF b = "foo" THEN 5 ELSE 0,
   banner |-> Undefined]

\* Bundle.toSpec(): the eight fields of the bundle
toSpec(b) ==
  LET this == BundleSpecOf(b)
  IN [type |-> this.type,
      id |-> this.id,
      publicDirNames |-> this.publicDirNames,
      contextDir |-> this.contextDir,
      sourceRoot |-> this.sourceRoot,
      outputDir |-> this.outputDir,
      manifestPath |-> this.manifestPath,
      banner |-> this.banner]

\* mutant: no path has a hash
MutHashNeverFound(hashes, p) == Undefined

\* Map.get: undefined for a path the map has no entry for
MapGet(hashes, p) == IF p \in DOMAIN hashes THEN hashes[p] ELSE Undefined

\* insert entry e into a list of entries sorted by path, after the entries
\* that do not sort after it (Array.prototype.sort is stable)
RECURSIVE InsertEntry(_, _)
InsertEntry(e, sorted) ==
  IF sorted = <<>> THEN <<e>>
  ELSE IF e[1] < sorted[1][1] THEN <<e>> \o sorted
  ELSE <<sorted[1]>> \o InsertEntry(e, Tail(sorted))

\* mutant: the entries stay in the order of `files`
MutEntriesNotSorted(entries) == entries

\* entries.sort(ascending((e) => e[0]))
RECURSIVE SortEntries(_)
SortEntries(entries) ==
  IF entries = <<>> THEN <<>>
  ELSE LET n == Len(entries)
       IN InsertEntry(entries[n], SortEntries(SubSeq(entries, 1, n - 1)))

\* entriesToObject: an object keeps a key where it was first inserted and
\* takes the value of the last entry with that key
RECURSIVE entriesToObject(_)
entriesToObject(entries) ==
  IF entries = <<>> THEN <<>>
  ELSE LET n == Len(entries)
           e == entries[n]
           obj == entriesToObject(SubSeq(entries, 1, n - 1))
       IN IF \E i \in 1..Len(obj) : obj[i][1] = e[1]
          THEN [i \in 1..Len(obj) |-> IF obj[i][1] = e[1] THEN e ELSE obj[i]]
          ELSE Append(obj, e)

\* mutant: the hash is looked up under the entry index instead of the path
MutHashLookupByIndex(b, files, hashes) ==
  [spec |-> toSpec(b),
   hashes |-> entriesToObject(
                SortEntries([i \in 1..Len(files) |-> <<files[i], MapGet(hashes, 0 - i)>>]))]

\* Bundle.createCacheKey(files, hashes)
createCacheKey(b, files, hashes) ==
  [spec |-> toSpec(b),
   hashes |-> entriesToObject(
                SortEntries([i \in 1..Len(files) |-> <<files[i], MapGet(hashes, files[i])>>]))]

(***************************************************************************)
(* Cache records and the bundle cache store                                *)
(***************************************************************************)
\* a spec no bundle has, the spec part of the two keys below
NoSpec ==
  [type |-> Undefined, id |-> Undefined, publicDirNames |-> <<>>,
   contextDir |-> Undefined, sourceRoot |-> Undefined, outputDir |-> Undefined,
   manifestPath |-> 0, banner |-> Undefined]

\* a cacheKey that is undefined (kept in the shape of a key so that keys compare)
UndefinedKey == [spec |-> NoSpec, hashes |-> <<>>]

\* the cacheKey 'old' of the tests: a key no createCacheKey call returns
OldKey == [spec |-> [NoSpec EXCEPT !.id = "old"], hashes |-> <<>>]

\* what cache.get() returns when nothing usable is stored
EmptyRecord ==
  [cacheKey |-> UndefinedKey,
   optimizerCacheKey |-> Undefined,
   files |-> <<>>,
   moduleCount |-> 0,
   workUnits |-> 0,
   bundleRefExportIds |-> <<>>]

FileLists == SeqsUpTo(Files, MaxFiles)

HashMaps == [Files -> HashVals]

\* the cacheKeys a caller stores for a given files list
CacheKeysFor(b, files) ==
  {UndefinedKey, OldKey} \cup {createCacheKey(b, files, hm) : hm \in HashMaps}

\* the records a caller hands to cache.set for bundle b
RecordsFor(b) ==
  UNION {
    {[cacheKey |-> k,
      optimizerCacheKey |-> o,
      files |-> fl,
      moduleCount |-> Len(fl),
      workUnits |-> 0,
      bundleRefExportIds |-> r] :
       k \in CacheKeysFor(b, fl),
       o \in OptimizerCacheKeys \cup {Undefined},
       r \in SeqsUpTo(ExportIds, MaxRefs)} : fl \in FileLists}

(***************************************************************************)
(* State                                                                   *)
(***************************************************************************)
VARIABLES
  cache,        \* cache[b]: the record persisted in bundle b's cache store
  disk,         \* disk[f]: content hash of file f, Undefined when f does not exist
  cacheEvents,  \* what the last getBundleCacheEvent$ call emitted, with its inputs
  workerConfig, \* the WorkerConfig handed to runCompilers
  webpackStats, \* the Stats webpack can hand to the done hooks in this run
  started,      \* "none", or the multiCompiler method runCompilers called: "run" / "watch"
  tapped,       \* tapped[b]: observeCompiler tapped the hooks of b's compiler
  subscription, \* state of the stream returned by runCompilers, and its error
  open,         \* open[b]: b's observeCompiler stream has not completed
  compiler,     \* compiler[b]: where webpack is in b's compilation
  passes,       \* number of passes webpack started so far, all bundles
  additional,   \* additional[b]: number of done hooks with needAdditionalPass so far
  tick,         \* tick[b]: a process.nextTick(() => done$.next()) is queued
  msgs,         \* msgs[b]: the CompilerMsgs of b delivered to the subscriber
  hashing,      \* hashing[b]: the getHashes(files) calls not settled yet
  statsFile,    \* statsFile[b]: the pass whose stats.json is in b's outputDir, 0 if none
  history,      \* the calls runCompilers made on webpack, and per bundle the pass whose
                \* record the cache store holds
  keyCall,      \* the createCacheKey call under test: its arguments and its result
  json,         \* the argument of the parseBundles call under test
  parsed,       \* what that parseBundles call did: returned bundles or the error thrown
  manifestFile, \* what reading the file at a bundle's manifestPath yields
  depsCall,     \* the readBundleDeps call under test: its bundle's manifestPath, its result
  stores,       \* stores[dir]: the record in the cache store at directory dir
  storeCall,    \* the bundles whose cache stores are under test, and the last call on them
  searchSources, \* searchSources[s]: the fields object and the parent of SearchSource s
  fieldObjects, \* fieldObjects[o]: the properties of the fields object o
  verifyCall    \* the verifyMessages call under test: its arguments and what it did

cacheVars == <<cache, disk, cacheEvents>>

compilerVars ==
  <<workerConfig, webpackStats, started, tapped, subscription, open, compiler, passes,
    additional, tick, msgs, hashing, statsFile, history>>

\* the calls on Bundle objects and on parseBundles made outside of a run
keyVars == <<keyCall>>

parseVars == <<json, parsed>>

depsVars == <<manifestFile, depsCall>>

storeVars == <<stores, storeCall>>

\* the objects of the other programs: SearchSource
searchVars == <<searchSources, fieldObjects>>

\* i18n integration: verifyMessages
verifyVars == <<verifyCall>>

otherVars == <<searchVars, verifyVars>>

bundleVars == <<keyVars, parseVars, depsVars, storeVars, otherVars>>

vars == <<cache, disk, cacheEvents, workerConfig, webpackStats, started, tapped, subscription,
          open, compiler, passes, additional, tick, msgs, hashing, statsFile, history,
          bundleVars>>

\* no createCacheKey call is under test
NoKeyCall ==
  keyCall = [state |-> "idle", b |-> "foo", files |-> <<>>, entries |-> <<>>,
             key |-> UndefinedKey]

\* no parseBundles call is under test
NoParseCall ==
  /\ json = [isString |-> FALSE, syntaxOk |-> FALSE, isArray |-> FALSE, elems |-> <<>>]
  /\ parsed = [state |-> "idle", ok |-> FALSE, message |-> <<"", "">>, bundles |-> <<>>,
               origin |-> <<>>]

\* no readBundleDeps call is under test
NoDepsCall ==
  /\ manifestFile = [read |-> "ENOENT", syntaxOk |-> FALSE, t |-> "undefined",
                     requiredBundles |-> [t |-> "undefined", s |-> "", items |-> <<>>],
                     requiredPlugins |-> [t |-> "undefined", s |-> "", items |-> <<>>]]
  /\ depsCall = [state |-> "idle",
                 manifestPath |-> [t |-> "undefined", s |-> "", items |-> <<>>],
                 kind |-> "",
                 thrown |-> [kind |-> "", path |-> "", detail |-> ""],
                 implicit |-> <<>>, explicit |-> <<>>]

\* no cache store of a parsed bundle is under test
NoStoreCall ==
  /\ stores = [dir \in {} |-> "empty"]
  /\ storeCall = [state |-> "idle", bundles |-> <<>>, on |-> 0, got |-> "empty"]

\* no SearchSource was constructed
NoSearchSource ==
  /\ searchSources = [s \in {} |-> 0]
  /\ fieldObjects = [o \in {} |-> 0]

\* no verifyMessages call is under test
NoVerifyCall ==
  verifyCall = [state |-> "idle", localized |-> <<>>, defaults |-> {},
                options |-> [ignoreMalformed |-> FALSE, ignoreIncompatible |-> FALSE,
                             ignoreUnused |-> FALSE, ignoreMissing |-> FALSE],
                icuThrowsOnUndefined |-> FALSE, map |-> <<>>, errors |-> <<>>,
                warnings |-> <<>>]

\* nothing of the other programs is under test
NoOtherCalls == NoSearchSource /\ NoVerifyCall

\* no call on a Bundle is under test
NoBundleCalls == NoKeyCall /\ NoParseCall /\ NoDepsCall /\ NoStoreCall /\ NoOtherCalls

\* getHashes(files): path -> hash of the content on disk, undefined for a missing file
getHashes(files, d) == [p \in Range(files) |-> d[p]]

\* BundleCache.get()
CacheGet(b) == cache[b]

(***************************************************************************)
(* Cache decision (getBundleCacheEvent$)                                   *)
(***************************************************************************)
Cached == [type |-> "bundle cached", reason |-> "", diff |-> FALSE]

NotCached(reason, diff) == [type |-> "bundle not cached", reason |-> reason, diff |-> diff]

\* mutant: the cache flag of the config is not consulted
MutCacheFlagIgnored(cfgCache) == FALSE

\* 1. caching is disabled by the config
IsCacheDisabled(cfgCache) == ~cfgCache

\* mutant: only the supplied key is tested for presence
MutStoredKeyNotChecked(optimizerCacheKey, stored) ==
  optimizerCacheKey = Undefined

\* mutant: only the stored key is tested for presence
MutCurrentKeyNotChecked(optimizerCacheKey, stored) ==
  stored.optimizerCacheKey = Undefined

\* 2. no optimizer cache key: none supplied, or none in the stored record
IsOptimizerCacheKeyMissing(optimizerCacheKey, stored) ==
  optimizerCacheKey = Undefined \/ stored.optimizerCacheKey = Undefined

\* mutant: the stored key is compared with itself
MutKeyComparedWithItself(optimizerCacheKey, stored) ==
  stored.optimizerCacheKey # stored.optimizerCacheKey

\* 3. the stored optimizer cache key differs from the current one
IsOptimizerCacheKeyMismatch(optimizerCacheKey, stored) ==
  stored.optimizerCacheKey # optimizerCacheKey

\* 4. the stored export ids differ, as a set, from the freshly resolved ones
IsBundleRefsOutdated(exportIds, stored) ==
  Range(stored.bundleRefExportIds) # exportIds

\* mutant: the files list is tested instead of the cacheKey
MutFilesTestedForKey(stored) == stored.files = <<>> /\ stored.cacheKey = UndefinedKey

\* 5. the stored record has no cacheKey
IsCacheKeyMissing(stored) == stored.cacheKey = UndefinedKey

\* mutant: a stored file that is missing on disk always invalidates the key
MutMissingFileInvalidates(b, stored, d) ==
  \/ stored.cacheKey # createCacheKey(b, stored.files, getHashes(stored.files, d))
  \/ \E f \in Range(stored.files) : d[f] = Undefined

\* 6. the stored cacheKey differs from the key of the stored files' current hashes
IsCacheKeyMismatch(b, stored, d) ==
  stored.cacheKey # createCacheKey(b, stored.files, getHashes(stored.files, d))

\* mutant: the cacheKey presence check runs before the export id comparison
MutKeyPresenceBeforeRefs(cfgCache, optimizerCacheKey, exportIds, b, d) ==
  LET stored == CacheGet(b)
  IN IF IsCacheDisabled(cfgCache)
       THEN NotCached("cache disabled", FALSE)
     ELSE IF IsOptimizerCacheKeyMissing(optimizerCacheKey, stored)
       THEN NotCached("missing optimizer cache key", FALSE)
     ELSE IF IsOptimizerCacheKeyMismatch(optimizerCacheKey, stored)
       THEN NotCached("optimizer cache key mismatch", TRUE)
     ELSE IF IsCacheKeyMissing(stored)
       THEN NotCached("missing cache key", FALSE)
     ELSE IF IsBundleRefsOutdated(exportIds, stored)
       THEN NotCached("bundle references outdated", TRUE)
     ELSE IF IsCacheKeyMismatch(b, stored, d)
       THEN NotCached("cache key mismatch", TRUE)
     ELSE Cached

\* the decision for one bundle: first match wins
BundleCacheEvent(cfgCache, optimizerCacheKey, exportIds, b, d) ==
  LET stored == CacheGet(b)
  IN IF IsCacheDisabled(cfgCache)
       THEN NotCached("cache disabled", FALSE)
     ELSE IF IsOptimizerCacheKeyMissing(optimizerCacheKey, stored)
       THEN NotCached("missing optimizer cache key", FALSE)
     ELSE IF IsOptimizerCacheKeyMismatch(optimizerCacheKey, stored)
       THEN NotCached("optimizer cache key mismatch", TRUE)
     ELSE IF IsBundleRefsOutdated(exportIds, stored)
       THEN NotCached("bundle references outdated", TRUE)
     ELSE IF IsCacheKeyMissing(stored)
       THEN NotCached("missing cache key", FALSE)
     ELSE IF IsCacheKeyMismatch(b, stored, d)
       THEN NotCached("cache key mismatch", TRUE)
     ELSE Cached

\* no getBundleCacheEvent$ result at hand
NoEvents ==
  [emitted |-> FALSE, cache |-> FALSE, optimizerCacheKey |-> Undefined,
   exportIds |-> {}, events |-> [b \in OptimizerBundles |-> Cached]]

(***************************************************************************)
(* Actions of the cache decision                                           *)
(***************************************************************************)
\* runCompilers has been called and its stream is not subscribed yet
InitCompilers ==
  /\ started = "none"
  /\ tapped = [b \in Bundles |-> FALSE]
  /\ subscription = [state |-> "cold", error |-> ""]
  /\ open = [b \in Bundles |-> TRUE]
  /\ compiler = [b \in Bundles |-> [phase |-> "idle", pass |-> 0]]
  /\ passes = 0
  /\ additional = [b \in Bundles |-> 0]
  /\ tick = [b \in Bundles |-> FALSE]
  /\ msgs = [b \in Bundles |-> <<>>]
  /\ hashing = [b \in Bundles |-> {}]
  /\ statsFile = [b \in Bundles |-> 0]
  /\ history = [calls |-> <<>>, stored |-> [b \in Bundles |-> 0]]

InitCache ==
  /\ cache = [b \in Bundles |-> EmptyRecord]
  /\ disk \in [Files -> HashVals]
  /\ cacheEvents = NoEvents
  /\ NoBundleCalls
  /\ workerConfig = [watch |-> FALSE, profileWebpack |-> FALSE,
                     optimizerCacheKey |-> "optimizerCacheKey"]
  /\ webpackStats = {}
  /\ InitCompilers

\* bundle.cache.set(record), on the clean output directory each run of the
\* cache decision starts from
CacheSet(b) ==
  /\ CacheGet(b) = EmptyRecord
  /\ \E record \in RecordsFor(b) : cache' = [cache EXCEPT ![b] = record]
  /\ cacheEvents' = NoEvents
  /\ UNCHANGED <<disk, compilerVars, bundleVars>>

\* a file is written, replaced or removed
WriteFile(f, h) ==
  /\ disk[f] # h
  /\ disk' = [disk EXCEPT ![f] = h]
  /\ cacheEvents' = NoEvents
  /\ UNCHANGED <<cache, compilerVars, bundleVars>>

\* allValuesFrom(getBundleCacheEvent$(config, optimizerCacheKey))
GetBundleCacheEvents(cfgCache, optimizerCacheKey, exportIds) ==
  /\ cacheEvents' =
       [emitted |-> TRUE, cache |-> cfgCache, optimizerCacheKey |-> optimizerCacheKey,
        exportIds |-> exportIds,
        events |-> [b \in OptimizerBundles |->
                     BundleCacheEvent(cfgCache, optimizerCacheKey, exportIds, b, disk)]]
  /\ UNCHANGED <<cache, disk, compilerVars, bundleVars>>

NextCache ==
  \/ \E b \in OptimizerBundles : CacheSet(b)
  \/ \E f \in Files, h \in HashVals : WriteFile(f, h)
  \/ \E cfgCache \in BOOLEAN, k \in OptimizerCacheKeys \cup {Undefined}, ids \in SUBSET ExportIds :
       GetBundleCacheEvents(cfgCache, k, ids)

SpecCache == InitCache /\ [][NextCache]_vars

(***************************************************************************)
(* Files and modules of a compilation (run_compilers.ts)                   *)
(***************************************************************************)
EXTRA_SCSS_WORK_UNITS == 100

\* the paths of the compilations, in ascending order; a path is its rank here:
\*   1 /repo/node_modules/@scope/pkg/lib/x.js
\*   2 /repo/node_modules/@scope/pkg/package.json
\*   3 /repo/node_modules/lodash/index.js
\*   4 /repo/node_modules/lodash/package.json
\*   5 /repo/plugins/foo/opensearch_dashboards.json
\*   6 /repo/plugins/foo/public/_vars.scss
\*   7 /repo/plugins/foo/public/index.scss
\*   8 /repo/plugins/foo/public/index.ts
\*   9 /repo/plugins/node_modules/dep/node_modules/pkg/package.json
\*  10 /repo/plugins/node_modules/dep/node_modules/pkg/theme.scss
\*  11 /repo/plugins/node_modules/dep/package.json
\*  12 /repo/plugins/node_modules/x.js
PathTable ==
  << [dirs |-> <<"repo", "node_modules", "@scope", "pkg", "lib">>, name |-> "x.js", ext |-> ".js"],
     [dirs |-> <<"repo", "node_modules", "@scope", "pkg">>, name |-> "package.json", ext |-> ".json"],
     [dirs |-> <<"repo", "node_modules", "lodash">>, name |-> "index.js", ext |-> ".js"],
     [dirs |-> <<"repo", "node_modules", "lodash">>, name |-> "package.json", ext |-> ".json"],
     [dirs |-> <<"repo", "plugins", "foo">>, name |-> "opensearch_dashboards.json", ext |-> ".json"],
     [dirs |-> <<"repo", "plugins", "foo", "public">>, name |-> "_vars.scss", ext |-> ".scss"],
     [dirs |-> <<"repo", "plugins", "foo", "public">>, name |-> "index.scss", ext |-> ".scss"],
     [dirs |-> <<"repo", "plugins", "foo", "public">>, name |-> "index.ts", ext |-> ".ts"],
     [dirs |-> <<"repo", "plugins", "node_modules", "dep", "node_modules", "pkg">>,
      name |-> "package.json", ext |-> ".json"],
     [dirs |-> <<"repo", "plugins", "node_modules", "dep", "node_modules", "pkg">>,
      name |-> "theme.scss", ext |-> ".scss"],
     [dirs |-> <<"repo", "plugins", "node_modules", "dep">>, name |-> "package.json",
      ext |-> ".json"],
     [dirs |-> <<"repo", "plugins", "node_modules">>, name |-> "x.js", ext |-> ".js"] >>

Paths == 1..Len(PathTable)

\* parseFilePath(path): the directory names and the file name of a path
parseFilePath(path) == PathTable[path]

\* Path.join(root, ...dirs, name)
PathJoin(dirs, name) ==
  CHOOSE p \in Paths : PathTable[p].dirs = dirs /\ PathTable[p].name = name

\* directory names that start with '@'
ScopedNames == {"@scope"}

\* dirs.lastIndexOf(name), counted from 1; 0 when dirs does not include name
lastIndexOf(dirs, name) ==
  LET at == {i \in 1..Len(dirs) : dirs[i] = name}
  IN IF at = {} THEN 0 ELSE CHOOSE i \in at : \A j \in at : j <= i

\* dirs.slice(0, n)
Slice(dirs, n) == SubSeq(dirs, 1, IF n < Len(dirs) THEN n ELSE Len(dirs))

\* the modules webpack hands over in stats.compilation.modules
NormalModule(path, deps) ==
  [kind |-> "NormalModule", path |-> path, exportId |-> "", modules |-> 0,
   fileDependencies |-> deps]

BundleRefModule(exportId) ==
  [kind |-> "BundleRefModule", path |-> 0, exportId |-> exportId, modules |-> 0,
   fileDependencies |-> {}]

ConcatenatedModule(n) ==
  [kind |-> "ConcatenatedModule", path |-> 0, exportId |-> "", modules |-> n,
   fileDependencies |-> {}]

ExternalModule ==
  [kind |-> "ExternalModule", path |-> 0, exportId |-> "", modules |-> 0,
   fileDependencies |-> {}]

IgnoredModule ==
  [kind |-> "RawModule ignored", path |-> 0, exportId |-> "", modules |-> 0,
   fileDependencies |-> {}]

\* a module of none of the kinds above
ContextModule ==
  [kind |-> "ContextModule", path |-> 0, exportId |-> "", modules |-> 0,
   fileDependencies |-> {}]

isNormalModule(module) == module.kind = "NormalModule"
isBundleRefModule(module) == module.kind = "BundleRefModule"
isConcatenatedModule(module) == module.kind = "ConcatenatedModule"
isExternalModule(module) == module.kind = "ExternalModule"
isIgnoredModule(module) == module.kind = "RawModule ignored"

\* mutant: the manifest of the bundle is not a referenced file
MutManifestNotReferenced(b, stats) ==
  [bundleRefExportIds |-> <<>>,
   referencedFiles |-> {},
   moduleCount |-> 0,
   workUnits |-> stats.fileDependencies,
   thrown |-> ""]

\* the locals of the done handler before the first module
InitialLocals(b, stats) ==
  [bundleRefExportIds |-> <<>>,
   referencedFiles |-> IF toSpec(b).manifestPath # 0 THEN {toSpec(b).manifestPath} ELSE {},
   moduleCount |-> 0,
   workUnits |-> stats.fileDependencies,
   thrown |-> ""]

\* the referenced file of a normal module below node_modules: the package.json
\* of its package; a module file directly in node_modules has no package
\* directory and startsWith is called on undefined
NodeModulesLocals(acc, parsedPath) ==
  LET nmIndex == lastIndexOf(parsedPath.dirs, "node_modules")
  IN IF nmIndex + 1 > Len(parsedPath.dirs)
       THEN [acc EXCEPT !.thrown = "TypeError"]
     ELSE LET isScoped == parsedPath.dirs[nmIndex + 1] \in ScopedNames
              pkg == PathJoin(Slice(parsedPath.dirs, nmIndex + (IF isScoped THEN 2 ELSE 1)),
                              "package.json")
          IN [acc EXCEPT !.referencedFiles = @ \cup {pkg}]

\* mutant: node_modules is not looked for in the directories of a module
MutNodeModulesNotSeen(parsedPath) == FALSE

\* parsedPath.dirs.includes('node_modules')
includesNodeModules(parsedPath) == lastIndexOf(parsedPath.dirs, "node_modules") # 0

\* mutant: a concatenated module counts as one module
MutConcatenatedCountsOnce(module) == 1

\* module.modules.length of a concatenated module
ConcatenatedLength(module) == module.modules

\* one iteration of the loop over stats.compilation.modules
ClassifyModule(acc, module) ==
  IF isNormalModule(module) THEN
    LET counted == [acc EXCEPT !.moduleCount = @ + 1]
        parsedPath == parseFilePath(module.path)
    IN IF ~includesNodeModules(parsedPath)
         THEN IF parsedPath.ext = ".scss"
                THEN [counted EXCEPT
                        !.referencedFiles = @ \cup {module.path} \cup module.fileDependencies,
                        !.workUnits = @ + EXTRA_SCSS_WORK_UNITS]
              ELSE [counted EXCEPT !.referencedFiles = @ \cup {module.path}]
       ELSE NodeModulesLocals(counted, parsedPath)
  ELSE IF isBundleRefModule(module)
    THEN [acc EXCEPT !.bundleRefExportIds = Append(@, module.exportId)]
  ELSE IF isConcatenatedModule(module)
    THEN [acc EXCEPT !.moduleCount = @ + ConcatenatedLength(module)]
  ELSE IF isExternalModule(module) \/ isIgnoredModule(module)
    THEN acc
  ELSE [acc EXCEPT !.thrown = "Unexpected module type"]

\* the loop: it ends at the first module that throws
RECURSIVE ClassifyModules(_, _)
ClassifyModules(acc, modules) ==
  IF modules = <<>> \/ acc.thrown # "" THEN acc
  ELSE ClassifyModules(ClassifyModule(acc, Head(modules)), Tail(modules))

\* Array.from(referencedFiles).sort(ascending((p) => p))
RECURSIVE SortedFiles(_)
SortedFiles(referencedFiles) ==
  IF referencedFiles = {} THEN <<>>
  ELSE LET first == CHOOSE p \in referencedFiles : \A q \in referencedFiles : p <= q
       IN <<first>> \o SortedFiles(referencedFiles \ {first})

\* mutant: failure stats are classified like any other stats
MutFailureStatsIgnored(stats) == FALSE

\* isFailureStats(stats)
isFailureStats(stats) == stats.hasErrors

\* mutant: needAdditionalPass is not looked at
MutAdditionalPassIgnored(stats) == FALSE

\* the done hook is not the last one of its pass
IsAdditionalPass(stats) == stats.needAdditionalPass

(***************************************************************************)
(* Compiler messages                                                       *)
(***************************************************************************)
Running == [type |-> "running", moduleCount |-> 0]
CompilerSuccess(moduleCount) == [type |-> "compiler success", moduleCount |-> moduleCount]
CompilerFailure == [type |-> "compiler issue", moduleCount |-> 0]

IsTerminal(msg) == msg.type \in {"compiler success", "compiler issue"}

\* mutant: failure stats are thrown as an error of the stream
MutFailureThrows(b, stats) ==
  IF IsAdditionalPass(stats) THEN [kind |-> "undefined", msg |-> Running, error |-> ""]
  ELSE IF isFailureStats(stats)
    THEN [kind |-> "throw", msg |-> Running, error |-> "compiler issue"]
  ELSE LET locals == ClassifyModules(InitialLocals(b, stats), stats.modules)
       IN IF locals.thrown # ""
            THEN [kind |-> "throw", msg |-> Running, error |-> locals.thrown]
          ELSE [kind |-> "msg", msg |-> CompilerSuccess(locals.moduleCount), error |-> ""]

\* what the done handler returns to maybeMap: no message, a message, or a throw
CompleteResult(b, stats) ==
  IF IsAdditionalPass(stats) THEN [kind |-> "undefined", msg |-> Running, error |-> ""]
  ELSE IF isFailureStats(stats) THEN [kind |-> "msg", msg |-> CompilerFailure, error |-> ""]
  ELSE LET locals == ClassifyModules(InitialLocals(b, stats), stats.modules)
       IN IF locals.thrown # ""
            THEN [kind |-> "throw", msg |-> Running, error |-> locals.thrown]
          ELSE [kind |-> "msg", msg |-> CompilerSuccess(locals.moduleCount), error |-> ""]

\* the getHashes(files) call the done handler of pass n starts, with the
\* fields of the record its then() callback stores; `compiled` keeps the
\* content the files have while the handler runs, which no code reads
HashJob(b, stats, n) ==
  LET locals == ClassifyModules(InitialLocals(b, stats), stats.modules)
  IN [pass |-> n,
      compiled |-> getHashes(SortedFiles(locals.referencedFiles), disk),
      bundleRefExportIds |-> locals.bundleRefExportIds,
      optimizerCacheKey |-> workerConfig.optimizerCacheKey,
      moduleCount |-> locals.moduleCount,
      workUnits |-> locals.workUnits,
      files |-> SortedFiles(locals.referencedFiles)]

\* the record bundle.cache.set receives once the hashes of a job are there
JobRecord(b, job, hashes) ==
  [bundleRefExportIds |-> job.bundleRefExportIds,
   optimizerCacheKey |-> job.optimizerCacheKey,
   cacheKey |-> createCacheKey(b, job.files, hashes),
   moduleCount |-> job.moduleCount,
   workUnits |-> job.workUnits,
   files |-> job.files]

\* the stats webpack hands to the done hook
IndexTs == NormalModule(8, {8})
IndexScss == NormalModule(7, {6, 7})
ScopedX == NormalModule(1, {1})
LodashIndex == NormalModule(3, {3})

ModuleLists ==
  { <<IndexTs, LodashIndex, BundleRefModule("a"), ExternalModule>>,
    <<IndexScss, ScopedX, ConcatenatedModule(2), IgnoredModule>>,
    <<IndexTs, ContextModule, IndexScss>> }

StatsSamples ==
  {[needAdditionalPass |-> FALSE, hasErrors |-> FALSE, fileDependencies |-> Len(ms) + 2,
    modules |-> ms] : ms \in ModuleLists}
  \cup
  {[needAdditionalPass |-> nap, hasErrors |-> err, fileDependencies |-> 6,
    modules |-> <<IndexTs, LodashIndex, BundleRefModule("a"), ExternalModule>>] :
     nap \in BOOLEAN, err \in BOOLEAN}

(***************************************************************************)
(* observeCompiler and runCompilers                                        *)
(***************************************************************************)
\* multiCompiler.compilers.entries(): the compilers in the order of `bundles`
CompilerEntries == <<"foo", "bar">>

\* the hooks observeCompiler taps when its stream is subscribed, in the order
\* merge(started$, complete$, error$) subscribes its sources
TappedHooks == <<"beforeRun", "watchRun", "done", "failed">>

\* hook.tap(PLUGIN_NAME, cb) on the compiler of bundle b
Tap(b, hook) == [call |-> "tap", compiler |-> b, hook |-> hook]

\* multiCompiler.run(() => {}) or multiCompiler.watch({}, () => {})
Trigger(cfg) ==
  [call |-> IF ~cfg.watch THEN "run" ELSE "watch", compiler |-> "all", hook |-> ""]

\* the taps of the observeCompiler streams mergeMap subscribes, compiler by compiler
CompilerTaps ==
  [i \in 1..(Len(CompilerEntries) * Len(TappedHooks)) |->
     Tap(CompilerEntries[((i - 1) \div Len(TappedHooks)) + 1],
         TappedHooks[((i - 1) % Len(TappedHooks)) + 1])]

\* mutant: the deferred run()/watch() is merged in before the compiler streams
MutTriggerBeforeTaps(cfg) == <<Trigger(cfg)>> \o CompilerTaps

\* the calls on webpack a subscription of the stream of runCompilers makes:
\* merge() subscribes the compiler streams first and the deferred trigger last
SubscriptionCalls(cfg) == CompilerTaps \o <<Trigger(cfg)>>

\* the stream is subscribed: observeCompiler taps the hooks of every compiler,
\* then the deferred part calls multiCompiler.run() or multiCompiler.watch()
Subscribe ==
  /\ subscription.state = "cold"
  /\ subscription' = [state |-> "active", error |-> ""]
  /\ history' = [history EXCEPT !.calls = @ \o SubscriptionCalls(workerConfig)]
  /\ tapped' = [b \in Bundles |->
                  \A hook \in Range(TappedHooks) : Tap(b, hook) \in Range(history'.calls)]
  /\ started' = Trigger(workerConfig).call
  /\ UNCHANGED <<bundleVars, cacheVars, workerConfig, webpackStats, open, compiler, passes, additional, tick,
                 msgs, hashing, statsFile>>

\* mutant: an error of one compiler's stream leaves the other streams subscribed
MutStreamsIsolated(b) == tapped[b] /\ subscription.state \in {"active", "error"} /\ open[b]

\* a hook callback of b's compiler reaches the subscriber of runCompilers
Listening(b) == tapped[b] /\ subscription.state = "active" /\ open[b]

\* callbacks queued with process.nextTick run before any other callback
NoTick == \A b \in Bundles : ~tick[b]

\* mutant: the start hooks are tapped but mapped to no message
MutStartedSilent(b) == <<>>

\* started$: the message a start hook maps to
StartedMsgs(b) == <<Running>>

\* webpack starts a pass of b's compiler and calls the taps of `hook`
StartHook(b) ==
  /\ NoTick
  /\ passes < MaxPasses
  /\ passes' = passes + 1
  /\ compiler' = [compiler EXCEPT ![b] = [phase |-> "running", pass |-> @.pass + 1]]
  /\ msgs' = IF Listening(b) THEN [msgs EXCEPT ![b] = @ \o StartedMsgs(b)] ELSE msgs
  /\ UNCHANGED <<bundleVars, cacheVars, workerConfig, webpackStats, history, started, tapped, subscription, open,
                 additional, tick, hashing, statsFile>>

\* compiler.hooks.beforeRun: multiCompiler.run() runs every compiler once
BeforeRun(b) ==
  /\ started = "run"
  /\ compiler[b].phase = "idle"
  /\ StartHook(b)

\* compiler.hooks.watchRun: the first pass of a watching compiler and every
\* pass a change re-triggers
WatchRun(b) ==
  /\ started = "watch"
  /\ compiler[b].phase \in {"idle", "done"}
  /\ StartHook(b)

\* mutant: done$.next() is never queued
MutDoneNeverQueued(cfg) == FALSE

\* mutant: done$.next() is queued in watch mode too
MutDoneQueuedInWatch(cfg) == TRUE

\* `if (!workerConfig.watch) process.nextTick(() => done$.next())`
SchedulesDone(cfg) == ~cfg.watch

\* mutant: stats.json is written after the failure branch has returned
MutStatsOnlyOnSuccess(cfg, stats) == cfg.profileWebpack /\ ~isFailureStats(stats)

\* `if (workerConfig.profileWebpack) Fs.writeFileSync(<outputDir>/stats.json, ...)`,
\* the first statement after the needAdditionalPass return
WritesStats(cfg, stats) == cfg.profileWebpack

\* compiler.hooks.done: webpack finished compiling; with needAdditionalPass it
\* compiles again and calls done again
Done(b, stats) ==
  LET result == CompleteResult(b, stats)
      handled == Listening(b) /\ result.kind # "undefined"
  IN /\ NoTick
     /\ compiler[b].phase = "running"
     /\ stats.needAdditionalPass => additional[b] < MaxAdditionalPasses
     /\ additional' = IF stats.needAdditionalPass
                        THEN [additional EXCEPT ![b] = @ + 1]
                      ELSE additional
     /\ compiler' = [compiler EXCEPT
                       ![b].phase = IF stats.needAdditionalPass THEN "running" ELSE "done"]
     /\ statsFile' = IF handled /\ WritesStats(workerConfig, stats)
                       THEN [statsFile EXCEPT ![b] = compiler[b].pass]
                     ELSE statsFile
     /\ tick' = IF handled /\ SchedulesDone(workerConfig)
                  THEN [tick EXCEPT ![b] = TRUE]
                ELSE tick
     /\ msgs' = IF handled /\ result.kind = "msg"
                  THEN [msgs EXCEPT ![b] = Append(@, result.msg)]
                ELSE msgs
     /\ hashing' = IF handled /\ result.kind = "msg" /\ ~isFailureStats(stats)
                     THEN [hashing EXCEPT ![b] = @ \cup {HashJob(b, stats, compiler[b].pass)}]
                   ELSE hashing
     /\ subscription' = IF handled /\ result.kind = "throw"
                          THEN [state |-> "error", error |-> result.error]
                        ELSE subscription
     /\ UNCHANGED <<bundleVars, cacheVars, workerConfig, webpackStats, history, started, tapped, open, passes>>

\* compiler.hooks.failed: error$ throws compilerMsgs.error(error)
Failed(b) ==
  /\ NoTick
  /\ compiler[b].phase = "running"
  /\ compiler' = [compiler EXCEPT ![b].phase = "failed"]
  /\ subscription' = IF Listening(b)
                       THEN [state |-> "error", error |-> "compiler error"]
                     ELSE subscription
  /\ UNCHANGED <<bundleVars, cacheVars, workerConfig, webpackStats, history, started, tapped, open, passes, additional,
                 tick, msgs, hashing, statsFile>>

\* the queued done$.next() runs: takeUntil(done$) completes b's stream, and
\* the merged stream completes with its last inner stream
Tick(b) ==
  /\ tick[b]
  /\ tick' = [tick EXCEPT ![b] = FALSE]
  /\ open' = IF Listening(b) THEN [open EXCEPT ![b] = FALSE] ELSE open
  /\ subscription' = IF Listening(b) /\ \A o \in Bundles \ {b} : ~open[o]
                       THEN [state |-> "complete", error |-> ""]
                     ELSE subscription
  /\ UNCHANGED <<bundleVars, cacheVars, workerConfig, webpackStats, history, started, tapped, compiler, passes,
                 additional, msgs, hashing, statsFile>>

\* getHashes(files) resolves and its then() callback stores the record
HashesResolved(b) ==
  /\ NoTick
  /\ \E job \in hashing[b] :
       /\ hashing' = [hashing EXCEPT ![b] = @ \ {job}]
       /\ cache' = [cache EXCEPT ![b] = JobRecord(b, job, getHashes(job.files, disk))]
       /\ history' = [history EXCEPT !.stored[b] = job.pass]
  /\ UNCHANGED <<bundleVars, disk, cacheEvents, workerConfig, webpackStats, started, tapped, subscription, open,
                 compiler, passes, additional, tick, msgs, statsFile>>

\* mutant: a failure of the hashing promise chain reaches the event stream
MutRejectionReachesStream(b) ==
  /\ NoTick
  /\ \E job \in hashing[b] : hashing' = [hashing EXCEPT ![b] = @ \ {job}]
  /\ subscription' = [state |-> "error", error |-> "rejected"]
  /\ UNCHANGED <<bundleVars, cacheVars, workerConfig, webpackStats, history, started, tapped, open, compiler,
                 passes, additional, tick, msgs, statsFile>>

\* getHashes(files) rejects, or createCacheKey or bundle.cache.set throws in
\* the then() callback: the trailing catch() swallows the error
HashesRejected(b) ==
  /\ NoTick
  /\ \E job \in hashing[b] : hashing' = [hashing EXCEPT ![b] = @ \ {job}]
  /\ UNCHANGED <<bundleVars, cacheVars, workerConfig, webpackStats, history, started, tapped, subscription, open,
                 compiler, passes, additional, tick, msgs, statsFile>>

\* the subscriber of runCompilers unsubscribes: the inner subscriptions are
\* dropped; runCompilers registers no teardown, the value returned by
\* multiCompiler.run() or multiCompiler.watch() is discarded
Unsubscribe ==
  /\ subscription.state = "active"
  /\ subscription' = [state |-> "unsubscribed", error |-> ""]
  /\ UNCHANGED <<bundleVars, cacheVars, workerConfig, webpackStats, history, started, tapped, open, compiler,
                 passes, additional, tick, msgs, hashing, statsFile>>

InitCompiler ==
  /\ cache = [b \in Bundles |-> EmptyRecord]
  /\ disk = [p \in Paths |-> "h1"]
  /\ cacheEvents = NoEvents
  /\ NoBundleCalls
  /\ workerConfig \in [watch : BOOLEAN, profileWebpack : BOOLEAN,
                       optimizerCacheKey : {"optimizerCacheKey"}]
  /\ webpackStats = StatsSamples
  /\ InitCompilers

NextCompiler ==
  \/ Subscribe
  \/ \E b \in Bundles : BeforeRun(b)
  \/ \E b \in Bundles : WatchRun(b)
  \/ \E b \in Bundles : \E stats \in webpackStats : Done(b, stats)
  \/ \E b \in Bundles : Failed(b)
  \/ \E b \in Bundles : Tick(b)
  \/ \E b \in Bundles : HashesResolved(b)
  \/ \E b \in Bundles : HashesRejected(b)
  \/ Unsubscribe

SpecCompiler == InitCompiler /\ [][NextCompiler]_vars

(***************************************************************************)
(* The done handler over every short list of modules                       *)
(***************************************************************************)
\* a stylesheet of a package below node_modules
NmScss == NormalModule(10, {10})

\* a module file that lies directly in a node_modules directory
NmDirect == NormalModule(12, {12})

ModuleSamples ==
  {IndexTs, IndexScss, ScopedX, NmScss, NmDirect, BundleRefModule("a"),
   BundleRefModule("b"), ConcatenatedModule(2), ExternalModule, ContextModule}

\* the stats of successful final passes over the lists of up to MaxModules modules
ClassifyStats ==
  {[needAdditionalPass |-> FALSE, hasErrors |-> FALSE, fileDependencies |-> 3,
    modules |-> ms] : ms \in SeqsUpTo(ModuleSamples, MaxModules)}

\* a run in which every done hook receives the same stats
InitClassify ==
  /\ cache = [b \in Bundles |-> EmptyRecord]
  /\ disk = [p \in Paths |-> "h1"]
  /\ cacheEvents = NoEvents
  /\ NoBundleCalls
  /\ workerConfig \in [watch : BOOLEAN, profileWebpack : {FALSE},
                       optimizerCacheKey : {"optimizerCacheKey"}]
  /\ webpackStats \in {{stats} : stats \in ClassifyStats}
  /\ InitCompilers

SpecClassify == InitClassify /\ [][NextCompiler]_vars

(***************************************************************************)
(* Properties of the cache decision                                        *)
(***************************************************************************)
\* the event emitted for bundle b and the inputs of the call that emitted it
EventOf(b) == cacheEvents.events[b]
ReasonOf(b) == EventOf(b).reason
CurrentKey == cacheEvents.optimizerCacheKey
StoredKeysMatch(b) ==
  /\ CurrentKey # Undefined
  /\ CacheGet(b).optimizerCacheKey = CurrentKey
StoredRefsMatch(b) == Range(CacheGet(b).bundleRefExportIds) = cacheEvents.exportIds
StoredCacheKeyCurrent(b) ==
  CacheGet(b).cacheKey =
    createCacheKey(b, CacheGet(b).files, getHashes(CacheGet(b).files, disk))
\* the stored cacheKey was built by createCacheKey from hashes of the stored
\* files of which at least one is not the file's hash on disk
StoredCacheKeyOfChangedHash(b) ==
  \E hm \in HashMaps :
    /\ CacheGet(b).cacheKey = createCacheKey(b, CacheGet(b).files, hm)
    /\ \E f \in Range(CacheGet(b).files) : hm[f] # disk[f]

\* C1 (as stated): with caching enabled, a stored optimizerCacheKey that is
\* present and differs from the current one always yields the reason
\* 'optimizer cache key mismatch'.
C1_AsStated ==
  \A b \in OptimizerBundles :
    (/\ cacheEvents.emitted
     /\ cacheEvents.cache
     /\ CacheGet(b).optimizerCacheKey # Undefined
     /\ CacheGet(b).optimizerCacheKey # CurrentKey)
    => EventOf(b) = NotCached("optimizer cache key mismatch", TRUE)

\* C1 (amended): with caching enabled and a current optimizerCacheKey
\* supplied, a stored optimizerCacheKey that is present and differs from the
\* current one yields NotCached 'optimizer cache key mismatch' and no other
\* reason, whatever the stored cacheKey and bundleRefExportIds are.
C1_OptimizerKeyMismatchFirst ==
  \A b \in OptimizerBundles :
    (/\ cacheEvents.emitted
     /\ cacheEvents.cache
     /\ CurrentKey # Undefined
     /\ CacheGet(b).optimizerCacheKey # Undefined
     /\ CacheGet(b).optimizerCacheKey # CurrentKey)
    => EventOf(b) = NotCached("optimizer cache key mismatch", TRUE)

\* a record wrong in the optimizer key, the export ids and the cacheKey was decided
C1_Witness ==
  /\ cacheEvents.emitted
  /\ cacheEvents.cache
  /\ CurrentKey = "optimizerCacheKey"
  /\ CacheGet("foo").optimizerCacheKey = "old"
  /\ ~StoredRefsMatch("foo")
  /\ CacheGet("foo").cacheKey # UndefinedKey
  /\ ~StoredCacheKeyCurrent("foo")
  /\ ReasonOf("foo") = "optimizer cache key mismatch"

\* C2: a bundle is reported Cached only if caching is enabled, the current
\* optimizerCacheKey is present and equals the stored one, the stored export
\* ids equal the fresh ones as a set and the stored cacheKey is present and
\* equal to the key recomputed from the current hashes of the stored files;
\* and a stored key built from a hash that is no longer the file's hash yields
\* 'cache key mismatch' when the earlier checks pass.
C2_CachedOnlyIfAllMatch ==
  \A b \in OptimizerBundles :
    cacheEvents.emitted =>
      /\ EventOf(b).type = "bundle cached" =>
           /\ cacheEvents.cache
           /\ StoredKeysMatch(b)
           /\ StoredRefsMatch(b)
           /\ CacheGet(b).cacheKey # UndefinedKey
           /\ StoredCacheKeyCurrent(b)
      /\ (/\ cacheEvents.cache
          /\ StoredKeysMatch(b)
          /\ StoredRefsMatch(b)
          /\ StoredCacheKeyOfChangedHash(b))
         => EventOf(b) = NotCached("cache key mismatch", TRUE)

\* a record whose only defect is the changed hash of a stored file was decided
C2_Witness ==
  /\ cacheEvents.emitted
  /\ cacheEvents.cache
  /\ StoredKeysMatch("foo")
  /\ StoredRefsMatch("foo")
  /\ Len(CacheGet("foo").files) = 2
  /\ StoredCacheKeyOfChangedHash("foo")
  /\ \E f \in Range(CacheGet("foo").files) : disk[f] \in Hashes
  /\ ReasonOf("foo") = "cache key mismatch"

C4_CacheDisabled ==
  \A b \in OptimizerBundles :
    (cacheEvents.emitted /\ ~cacheEvents.cache)
    => EventOf(b) = NotCached("cache disabled", FALSE)

\* a record matching in every field was decided with caching disabled
C4_Witness ==
  /\ cacheEvents.emitted
  /\ ~cacheEvents.cache
  /\ StoredKeysMatch("foo")
  /\ StoredRefsMatch("foo")
  /\ StoredCacheKeyCurrent("foo")
  /\ CacheGet("foo").files # <<>>
  /\ ReasonOf("foo") = "cache disabled"

\* C5: with caching enabled and a current optimizerCacheKey supplied, a stored
\* record without optimizerCacheKey yields 'missing optimizer cache key', not
\* 'optimizer cache key mismatch', also when cacheKey and export ids are up to date.
C5_StoredOptimizerKeyMissing ==
  \A b \in OptimizerBundles :
    (/\ cacheEvents.emitted
     /\ cacheEvents.cache
     /\ CurrentKey # Undefined
     /\ CacheGet(b).optimizerCacheKey = Undefined)
    => EventOf(b) = NotCached("missing optimizer cache key", FALSE)

\* a record up to date but for its missing optimizerCacheKey was decided
C5_Witness ==
  /\ cacheEvents.emitted
  /\ cacheEvents.cache
  /\ CurrentKey = "optimizerCacheKey"
  /\ CacheGet("foo").optimizerCacheKey = Undefined
  /\ StoredRefsMatch("foo")
  /\ StoredCacheKeyCurrent("foo")
  /\ ReasonOf("foo") = "missing optimizer cache key"

\* C6: with caching enabled and no current optimizerCacheKey supplied the
\* decision is 'missing optimizer cache key', whatever the stored
\* optimizerCacheKey, export ids and cacheKey are.
C6_CurrentOptimizerKeyMissing ==
  \A b \in OptimizerBundles :
    (/\ cacheEvents.emitted
     /\ cacheEvents.cache
     /\ CurrentKey = Undefined)
    => EventOf(b) = NotCached("missing optimizer cache key", FALSE)

\* a record with an optimizerCacheKey, outdated export ids and a stale cacheKey
\* was decided without a current optimizerCacheKey
C6_Witness ==
  /\ cacheEvents.emitted
  /\ cacheEvents.cache
  /\ CurrentKey = Undefined
  /\ CacheGet("foo").optimizerCacheKey \in OptimizerCacheKeys
  /\ ~StoredRefsMatch("foo")
  /\ ~StoredCacheKeyCurrent("foo")
  /\ ReasonOf("foo") = "missing optimizer cache key"

\* C7: with caching enabled and matching optimizer cache keys, stored export
\* ids that differ as a set from the fresh ones yield 'bundle references
\* outdated', whether or not the stored cacheKey is present or matching.
C7_BundleRefsOutdated ==
  \A b \in OptimizerBundles :
    (/\ cacheEvents.emitted
     /\ cacheEvents.cache
     /\ StoredKeysMatch(b)
     /\ ~StoredRefsMatch(b))
    => EventOf(b) = NotCached("bundle references outdated", TRUE)

\* stored ids ["a"] against fresh ids {"a","b"} were decided for a record
\* without cacheKey
C7_Witness ==
  /\ cacheEvents.emitted
  /\ cacheEvents.cache
  /\ StoredKeysMatch("foo")
  /\ CacheGet("foo").bundleRefExportIds = <<"a">>
  /\ cacheEvents.exportIds = {"a", "b"}
  /\ CacheGet("foo").cacheKey = UndefinedKey
  /\ ReasonOf("foo") = "bundle references outdated"

\* C8: with caching enabled, matching optimizer cache keys and matching export
\* ids, a stored record without cacheKey yields 'missing cache key' and not
\* 'cache key mismatch'.
C8_CacheKeyMissing ==
  \A b \in OptimizerBundles :
    (/\ cacheEvents.emitted
     /\ cacheEvents.cache
     /\ StoredKeysMatch(b)
     /\ StoredRefsMatch(b)
     /\ CacheGet(b).cacheKey = UndefinedKey)
    => EventOf(b) = NotCached("missing cache key", FALSE)

\* a record with files but no cacheKey was decided
C8_Witness ==
  /\ cacheEvents.emitted
  /\ cacheEvents.cache
  /\ StoredKeysMatch("foo")
  /\ StoredRefsMatch("foo")
  /\ CacheGet("foo").cacheKey = UndefinedKey
  /\ CacheGet("foo").files # <<>>
  /\ ReasonOf("foo") = "missing cache key"

(***************************************************************************)
(* Properties of the compiler event protocol                               *)
(***************************************************************************)
\* C9: in the messages delivered for one bundle every Success or Failure
\* directly follows a Running, and every Running is the first message or
\* directly follows a Success or Failure.
C9_RunningTerminalAlternate ==
  \A b \in Bundles :
    \A i \in 1..Len(msgs[b]) :
      /\ IsTerminal(msgs[b][i]) => i > 1 /\ msgs[b][i - 1] = Running
      /\ msgs[b][i] = Running => i = 1 \/ IsTerminal(msgs[b][i - 1])

\* a watched bundle went through two passes, one of them with an additional pass
C9_Witness ==
  \E b \in Bundles :
    /\ workerConfig.watch
    /\ additional[b] >= 1
    /\ Len(msgs[b]) = 4
    /\ msgs[b][2].type = "compiler success"
    /\ msgs[b][4].type = "compiler issue"

\* C10: a done hook with needAdditionalPass delivers no message, starts no
\* getHashes call, writes no cache record and no stats.json, queues no
\* done$.next() and leaves the streams as they are; a Success or Failure is
\* delivered only in the step of a done hook without needAdditionalPass.
C10_AdditionalPassSilent ==
  [][/\ additional' # additional =>
          UNCHANGED <<msgs, hashing, cache, statsFile, tick, subscription, open>>
     /\ \A b \in Bundles :
          (Len(msgs'[b]) > Len(msgs[b]) /\ IsTerminal(msgs'[b][Len(msgs'[b])])) =>
            /\ compiler[b].phase = "running"
            /\ compiler'[b].phase = "done"
            /\ additional'[b] = additional[b]]_vars

\* with profileWebpack set and watch unset, a pass ended in Success after a
\* done hook with needAdditionalPass
C10_Witness ==
  \E b \in Bundles :
    /\ workerConfig.profileWebpack
    /\ ~workerConfig.watch
    /\ additional[b] = 1
    /\ compiler[b] = [phase |-> "done", pass |-> 1]
    /\ Len(msgs[b]) = 2
    /\ msgs[b][2].type = "compiler success"
    /\ statsFile[b] = 1
    /\ hashing[b] # {}

\* the last message delivered for bundle b
LastMsg(b) == msgs[b][Len(msgs[b])]

\* C11: without watch a bundle's stream is completed only after its terminal
\* message was delivered, the completion is queued in the step that delivers
\* the terminal message, and nothing is delivered for the bundle once its
\* stream is complete; with watch no completion is ever queued, no stream
\* completes, and every pass delivers a Running message and a terminal message
C11_CompletionFollowsTerminal ==
  /\ [](\A b \in Bundles :
          /\ ~open[b] =>
               /\ ~workerConfig.watch
               /\ Len(msgs[b]) > 0
               /\ IsTerminal(LastMsg(b))
          /\ (~workerConfig.watch /\ subscription.state = "active" /\ open[b]
                /\ Len(msgs[b]) > 0 /\ IsTerminal(LastMsg(b))) => tick[b]
          /\ workerConfig.watch =>
               /\ open[b]
               /\ ~tick[b]
               /\ subscription.state # "complete"
          /\ (workerConfig.watch /\ subscription.state = "active") =>
               Len(msgs[b]) = IF compiler[b].phase = "running"
                                THEN 2 * compiler[b].pass - 1
                              ELSE 2 * compiler[b].pass)
  /\ [][\A b \in Bundles : ~open[b] => msgs'[b] = msgs[b]]_vars

\* both streams of a run without watch completed, each after a terminal message
C11_Witness ==
  /\ ~workerConfig.watch
  /\ subscription.state = "complete"
  /\ \A b \in Bundles : ~open[b] /\ IsTerminal(LastMsg(b))

\* the number of messages the passes of b's compiler map to: a Running per
\* pass and a terminal message per finished pass
PassMsgs(b) ==
  IF compiler[b].phase = "running" THEN 2 * compiler[b].pass - 1 ELSE 2 * compiler[b].pass

\* C12 as stated: after the failed hook of one compiler ended the stream with
\* a compiler error, the messages of the passes of every other compiler are
\* still delivered
C12_AsStated ==
  \A o \in Bundles :
    (subscription.state = "error" /\ subscription.error = "compiler error"
       /\ compiler[o].phase \in {"running", "done"}) =>
      Len(msgs[o]) = PassMsgs(o)

\* C12: a failed hook reaching the subscriber errors the stream of runCompilers
\* with the compiler error and delivers nothing in that step; once the stream
\* has errored no message of any bundle is delivered and no stream completes
C12_FailedHookErrorsWholeStream ==
  /\ [][\A b \in Bundles :
          (Listening(b) /\ compiler[b].phase # "failed" /\ compiler'[b].phase = "failed") =>
            /\ subscription' = [state |-> "error", error |-> "compiler error"]
            /\ msgs' = msgs]_vars
  /\ [][subscription.state = "error" =>
          (msgs' = msgs /\ open' = open /\ subscription' = subscription)]_vars

\* the failed hook of one compiler errored the stream and a pass another
\* compiler finished afterwards delivered no terminal message
C12_Witness ==
  \E b \in Bundles : \E o \in Bundles \ {b} :
    /\ subscription = [state |-> "error", error |-> "compiler error"]
    /\ compiler[b].phase = "failed"
    /\ compiler[o].phase = "done"
    /\ Len(msgs[o]) < PassMsgs(o)

\* C13: the step of the done hook that starts getHashes delivers the Success
\* message of that pass and leaves the cache untouched, and the step in which
\* a hashing job ends, with a stored record or with a swallowed error, changes
\* neither the delivered messages nor the state of any stream
C13_CachePersistenceDetached ==
  /\ [][\A b \in Bundles : \A job \in hashing'[b] \ hashing[b] :
          /\ msgs'[b] = Append(msgs[b], CompilerSuccess(job.moduleCount))
          /\ subscription' = subscription
          /\ cache' = cache]_vars
  /\ [][(\E b \in Bundles : hashing'[b] # hashing[b] /\ hashing'[b] \subseteq hashing[b]) =>
          (msgs' = msgs /\ subscription' = subscription /\ open' = open)]_vars

\* the hashing of a successful pass failed: its Success message stays
\* delivered, no record was stored and the stream did not error
C13_Witness ==
  \E b \in Bundles :
    /\ hashing[b] = {}
    /\ cache[b] = EmptyRecord
    /\ subscription.state \in {"active", "complete"}
    /\ \E i \in 1..Len(msgs[b]) : msgs[b][i].type = "compiler success"

\* the module kinds the loop of the done handler knows
KnownKinds ==
  {"NormalModule", "BundleRefModule", "ConcatenatedModule", "ExternalModule",
   "RawModule ignored"}

HasUnexpectedModule(stats) ==
  \E i \in 1..Len(stats.modules) : stats.modules[i].kind \notin KnownKinds

\* C14: a done hook with needAdditionalPass, with failure stats or with a
\* module of an unknown kind, and a failed hook, start no hashing job and
\* leave every stored record as it is; a stored record changes only in the
\* step that ends a hashing job, to the record of that job; and every hashing
\* job belongs to a pass whose terminal message is Success
C14_CacheSetOnlyAfterSuccess ==
  /\ [][\A b \in Bundles : \A stats \in webpackStats :
          (Done(b, stats)
             /\ (stats.needAdditionalPass \/ stats.hasErrors \/ HasUnexpectedModule(stats))) =>
            (hashing' = hashing /\ cache' = cache)]_vars
  /\ [][\A b \in Bundles :
          (compiler[b].phase # "failed" /\ compiler'[b].phase = "failed") =>
            (hashing' = hashing /\ cache' = cache)]_vars
  /\ [][\A b \in Bundles :
          cache'[b] # cache[b] =>
            \E job \in hashing[b] :
              /\ hashing'[b] = hashing[b] \ {job}
              /\ cache'[b] = JobRecord(b, job, getHashes(job.files, disk))]_vars
  /\ [](\A b \in Bundles : \A job \in hashing[b] :
          /\ Len(msgs[b]) >= 2 * job.pass
          /\ msgs[b][2 * job.pass] = CompilerSuccess(job.moduleCount))

\* a pass that ended in Failure left the record of an earlier pass in place
C14_Witness ==
  \E b \in Bundles :
    /\ cache[b] # EmptyRecord
    /\ hashing[b] = {}
    /\ Len(msgs[b]) > 0
    /\ LastMsg(b) = CompilerFailure

\* the done hook of a successfully compiled final pass with these stats
\* reaches the subscriber
SuccessfulFinalDone(b, stats) ==
  /\ Done(b, stats)
  /\ Listening(b)
  /\ ~stats.needAdditionalPass
  /\ ~stats.hasErrors

\* C15 as stated: a successfully compiled final pass with a module of an
\* unknown kind, wherever it stands in the module list, errors the stream with
\* 'Unexpected module type', delivers no Success message and starts no hashing
\* job, so that no record is written
C15_AsStated ==
  [][\A b \in Bundles : \A stats \in webpackStats :
       (SuccessfulFinalDone(b, stats) /\ HasUnexpectedModule(stats)) =>
         /\ subscription' = [state |-> "error", error |-> "Unexpected module type"]
         /\ msgs' = msgs
         /\ hashing' = hashing
         /\ cache' = cache]_vars

\* the positions of the modules of a list that satisfy Test
Positions(modules, Test(_)) == {i \in 1..Len(modules) : Test(modules[i])}

IsStylesheetModule(module) ==
  module.kind = "NormalModule" /\ PathTable[module.path].ext = ".scss"

IsBelowNodeModules(module) ==
  /\ module.kind = "NormalModule"
  /\ \E i \in 1..Len(PathTable[module.path].dirs) :
       PathTable[module.path].dirs[i] = "node_modules"

IsInTreeStylesheet(module) == IsStylesheetModule(module) /\ ~IsBelowNodeModules(module)

\* the hashing jobs the step starts for bundle b
NewJobs(b) == hashing'[b] \ hashing[b]

\* C16 as stated: the workUnits of the record of a successful final pass are
\* the file dependencies of the compilation plus 100 for every .scss module
C16_AsStated ==
  [][\A b \in Bundles : \A stats \in webpackStats :
       SuccessfulFinalDone(b, stats) =>
         \A job \in NewJobs(b) :
           job.workUnits = stats.fileDependencies
                             + 100 * Cardinality(Positions(stats.modules, IsStylesheetModule))]_vars

\* C16: the workUnits of the record of a successful final pass are the file
\* dependencies of the compilation plus 100 for every .scss normal module
\* that is not below node_modules, and the stored record carries them
C16_WorkUnitsCountInTreeStylesheets ==
  /\ [][\A b \in Bundles : \A stats \in webpackStats :
          SuccessfulFinalDone(b, stats) =>
            \A job \in NewJobs(b) :
              job.workUnits = stats.fileDependencies
                                + 100 * Cardinality(Positions(stats.modules, IsInTreeStylesheet))]_vars
  /\ [][\A b \in Bundles :
          cache'[b] # cache[b] =>
            \E job \in hashing[b] \ hashing'[b] : cache'[b].workUnits = job.workUnits]_vars

\* the record of a pass with a stylesheet of the plugin and a stylesheet of a
\* package carries the extra work units once
C16_Witness ==
  \E b \in Bundles :
    /\ \A stats \in webpackStats : stats.modules = <<IndexScss, NmScss>>
    /\ cache[b] # EmptyRecord
    /\ cache[b].workUnits = 103

\* the package.json files of the package directory that follows the last
\* node_modules directory of a module's path: two directories deep for a
\* scoped package, one otherwise; none when no directory follows node_modules
PackageJsonOf(module) ==
  LET dirs == PathTable[module.path].dirs
      nmIndex == lastIndexOf(dirs, "node_modules")
      depth == IF nmIndex + 1 <= Len(dirs) /\ dirs[nmIndex + 1] \in ScopedNames THEN 2 ELSE 1
  IN IF nmIndex + depth > Len(dirs) THEN {}
     ELSE {p \in Paths : /\ PathTable[p].name = "package.json"
                         /\ PathTable[p].dirs = SubSeq(dirs, 1, nmIndex + depth)}

\* C17 as stated: the files of the record of a successful final pass hold, for
\* every normal module below node_modules, the package.json of its package and
\* not the path of the module
C17_AsStated ==
  [][\A b \in Bundles : \A stats \in webpackStats :
       (SuccessfulFinalDone(b, stats) /\ ~HasUnexpectedModule(stats)) =>
         \E job \in NewJobs(b) :
           \A i \in Positions(stats.modules, IsBelowNodeModules) :
             /\ \E p \in PackageJsonOf(stats.modules[i]) : p \in Range(job.files)
             /\ stats.modules[i].path \notin Range(job.files)]_vars

IsNormal(module) == module.kind = "NormalModule"

\* the sum of modules.length over the concatenated modules of a list
RECURSIVE ConcatenatedTotal(_)
ConcatenatedTotal(modules) ==
  IF modules = <<>> THEN 0
  ELSE (IF Head(modules).kind = "ConcatenatedModule" THEN Head(modules).modules ELSE 0)
         + ConcatenatedTotal(Tail(modules))

\* the export ids of the BundleRefModules of a list, in the order of the list
RECURSIVE ExportIdsOf(_)
ExportIdsOf(modules) ==
  IF modules = <<>> THEN <<>>
  ELSE (IF Head(modules).kind = "BundleRefModule" THEN <<Head(modules).exportId>> ELSE <<>>)
         \o ExportIdsOf(Tail(modules))

\* the files the normal modules of a list can refer to
FilesOfNormalModules(modules) ==
  UNION {{modules[i].path} \cup modules[i].fileDependencies \cup PackageJsonOf(modules[i]) :
           i \in Positions(modules, IsNormal)}

\* C18: the record of a successful final pass counts one module per normal
\* module and modules.length per concatenated module and nothing else, lists
\* the export ids of the BundleRefModules, and refers to no file beyond the
\* manifest and the files of the normal modules; the Success message of the
\* pass and the stored record carry that same moduleCount
C18_ModuleCountAccounting ==
  /\ [][\A b \in Bundles : \A stats \in webpackStats :
          SuccessfulFinalDone(b, stats) =>
            \A job \in NewJobs(b) :
              /\ job.moduleCount = Cardinality(Positions(stats.modules, IsNormal))
                                     + ConcatenatedTotal(stats.modules)
              /\ job.bundleRefExportIds = ExportIdsOf(stats.modules)
              /\ Range(job.files) \subseteq
                   {toSpec(b).manifestPath} \cup FilesOfNormalModules(stats.modules)
              /\ msgs'[b] = Append(msgs[b], CompilerSuccess(job.moduleCount))]_vars
  /\ [][\A b \in Bundles :
          cache'[b] # cache[b] =>
            \E job \in hashing[b] \ hashing'[b] :
              /\ cache'[b].moduleCount = job.moduleCount
              /\ cache'[b].bundleRefExportIds = job.bundleRefExportIds]_vars

\* the record and the Success message of a pass with a concatenated module of
\* two modules and a BundleRefModule
C18_Witness ==
  \E b \in Bundles :
    /\ \A stats \in webpackStats :
         stats.modules = <<ConcatenatedModule(2), BundleRefModule("a")>>
    /\ cache[b] # EmptyRecord
    /\ cache[b].moduleCount = 2
    /\ cache[b].bundleRefExportIds = <<"a">>
    /\ CompilerSuccess(2) \in Range(msgs[b])

\* a files list in ascending order without duplicates that holds the manifest
\* of bundle b when b has one
IsFilesListOf(b, files) ==
  /\ \A i \in 1..Len(files) : \A j \in 1..Len(files) : i < j => files[i] < files[j]
  /\ toSpec(b).manifestPath # 0 => toSpec(b).manifestPath \in Range(files)

\* C19: the files of every hashing job and of every stored record of a bundle
\* are in ascending order without duplicates and hold the manifest of the
\* bundle when it has one; the stored record carries the files of its job, and
\* its cacheKey is createCacheKey of those files and of their hashes
C19_FilesSortedWithManifest ==
  /\ [](\A b \in Bundles :
          /\ \A job \in hashing[b] : IsFilesListOf(b, job.files)
          /\ cache[b] # EmptyRecord =>
               /\ IsFilesListOf(b, cache[b].files)
               /\ Len(cache[b].cacheKey.hashes) = Len(cache[b].files)
               /\ \A i \in 1..Len(cache[b].files) :
                    cache[b].cacheKey.hashes[i][1] = cache[b].files[i])
  /\ [][\A b \in Bundles :
          cache'[b] # cache[b] =>
            \E job \in hashing[b] \ hashing'[b] :
              /\ cache'[b].files = job.files
              /\ cache'[b].cacheKey =
                   createCacheKey(b, job.files, getHashes(job.files, disk))]_vars

\* the record of a pass without modules of a bundle with a manifest
C19_Witness ==
  \E b \in Bundles :
    /\ toSpec(b).manifestPath # 0
    /\ \A stats \in webpackStats : stats.modules = <<>>
    /\ cache[b] # EmptyRecord
    /\ cache[b].files = <<toSpec(b).manifestPath>>

\* C20 as stated: once the subscriber has unsubscribed from a watching run,
\* webpack starts no further pass and no record is written
C20_AsStated ==
  [][(workerConfig.watch /\ subscription.state = "unsubscribed") =>
       (passes' = passes /\ cache' = cache)]_vars

(***************************************************************************)
(* Calls on a Bundle outside of a run: createCacheKey                      *)
(***************************************************************************)
\* no optimizer and no worker is running
NoRun ==
  /\ cache = [b \in Bundles |-> EmptyRecord]
  /\ disk = [p \in Paths |-> "h1"]
  /\ cacheEvents = NoEvents
  /\ workerConfig = [watch |-> FALSE, profileWebpack |-> FALSE,
                     optimizerCacheKey |-> "optimizerCacheKey"]
  /\ webpackStats = {}
  /\ InitCompilers

\* the Map.set(path, hash) calls that build a hashes map, in insertion order
HashEntries == {<<p, h>> : p \in Files, h \in HashVals}
EntryLists == SeqsUpTo(HashEntries, MaxFiles)

\* new Map(entries): a path keeps the value it was set to last
MapOf(entries) ==
  [p \in {entries[i][1] : i \in 1..Len(entries)} |->
     entries[CHOOSE i \in 1..Len(entries) :
               /\ entries[i][1] = p
               /\ \A j \in (i + 1)..Len(entries) : entries[j][1] # p][2]]

\* JSON.parse(JSON.stringify(cacheKey)): a property whose value is undefined
\* is not written, the other properties keep their order
JsonRoundTrip(key) ==
  [spec |-> key.spec,
   hashes |-> SelectSeq(key.hashes, LAMBDA e : e[2] # Undefined)]

\* bundle.createCacheKey(files, hashes) is called
CreateCacheKey ==
  /\ keyCall.state = "args"
  /\ keyCall' = [keyCall EXCEPT
                   !.state = "done",
                   !.key = createCacheKey(keyCall.b, keyCall.files, MapOf(keyCall.entries))]
  /\ UNCHANGED <<cacheVars, compilerVars, parseVars, depsVars, storeVars, otherVars>>

\* the key is persisted with cache.set and read back with cache.get
PersistKey ==
  /\ keyCall.state = "done"
  /\ keyCall' = [keyCall EXCEPT !.state = "stored", !.key = JsonRoundTrip(keyCall.key)]
  /\ UNCHANGED <<cacheVars, compilerVars, parseVars, depsVars, storeVars, otherVars>>

InitKey ==
  /\ NoRun
  /\ NoOtherCalls
  /\ NoParseCall
  /\ NoDepsCall
  /\ NoStoreCall
  /\ keyCall \in [state : {"args"}, b : Bundles, files : FileLists, entries : EntryLists,
                  key : {UndefinedKey}]

NextKey == CreateCacheKey \/ PersistKey

SpecKey == InitKey /\ [][NextKey]_vars

(***************************************************************************)
(* Properties of createCacheKey                                            *)
(***************************************************************************)
\* s and t hold the same elements the same number of times
IsPermutation(s, t) ==
  /\ Len(s) = Len(t)
  /\ \A x \in Range(s) \cup Range(t) :
       Cardinality({i \in 1..Len(s) : s[i] = x}) = Cardinality({i \in 1..Len(t) : t[i] = x})

\* the paths of a hashes table are in ascending order
IsKeyedAscending(table) ==
  \A i \in 1..Len(table) : \A j \in 1..Len(table) : i < j => table[i][1] < table[j][1]

\* C21: the key a createCacheKey call returned equals the key of every call
\* for the same bundle whose files are a permutation of its files and whose
\* hashes map holds the same associations, whatever the order they were set
\* in; and the hashes table of the key is keyed in ascending path order
C21_KeyIndependentOfOrder ==
  keyCall.state = "done" =>
    /\ IsKeyedAscending(keyCall.key.hashes)
    /\ \A files \in FileLists : \A entries \in EntryLists :
         (IsPermutation(keyCall.files, files) /\ MapOf(entries) = MapOf(keyCall.entries)) =>
           createCacheKey(keyCall.b, files, MapOf(entries)) = keyCall.key

\* the key of files in descending order and of a map filled in descending order
C21_Witness ==
  /\ keyCall.state = "done"
  /\ keyCall.files = <<2, 1>>
  /\ keyCall.entries = << <<2, "h2">>, <<1, "h1">> >>
  /\ keyCall.key.hashes = << <<1, "h1">>, <<2, "h2">> >>

\* the hashes map holds a hash for path p
HasHash(hashes, p) == p \in DOMAIN hashes /\ hashes[p] # Undefined

\* exactly one of two hashes maps has a hash for path p
HashOnlyInOne(p, hashes, other) == HasHash(hashes, p) # HasHash(other, p)

\* C22: the key of a createCacheKey call has one entry per path of files, with
\* the value hashes.get returns for it, undefined included; and it differs
\* from the key of every call for the same bundle and files whose hashes map
\* lacks the hash of a file the first map has, or has one the first map lacks,
\* whether none, one or both of the two keys went through cache.set and
\* cache.get
C22_MissingHashChangesKey ==
  /\ keyCall.state = "done" =>
       /\ {keyCall.key.hashes[i][1] : i \in 1..Len(keyCall.key.hashes)} = Range(keyCall.files)
       /\ \A i \in 1..Len(keyCall.key.hashes) :
            LET e == keyCall.key.hashes[i]
            IN IF HasHash(MapOf(keyCall.entries), e[1])
                 THEN e[2] = MapOf(keyCall.entries)[e[1]]
               ELSE e[2] = Undefined
  /\ keyCall.state \in {"done", "stored"} =>
       \A entries \in EntryLists :
         (\E p \in Range(keyCall.files) :
            HashOnlyInOne(p, MapOf(keyCall.entries), MapOf(entries))) =>
           LET other == createCacheKey(keyCall.b, keyCall.files, MapOf(entries))
           IN /\ keyCall.key # other
              /\ keyCall.key # JsonRoundTrip(other)

\* a key read back from the store without the entry of a file that has no hash
C22_Witness ==
  /\ keyCall.state = "stored"
  /\ keyCall.files = <<1, 2>>
  /\ ~HasHash(MapOf(keyCall.entries), 2)
  /\ keyCall.key.hashes = << <<1, "h1">> >>

(***************************************************************************)
(* parseBundles and Bundle objects (src/unnamed/part_000)                  *)
(***************************************************************************)
\* JSON values and the value `undefined` of a property that is not there:
\* strings, a number, null, and arrays of such values
Str(s) == [t |-> "string", s |-> s, items |-> <<>>]
Num == [t |-> "number", s |-> "1", items |-> <<>>]
Null == [t |-> "null", s |-> "", items |-> <<>>]
Undef == [t |-> "undefined", s |-> "", items |-> <<>>]
Arr(items) == [t |-> "array", s |-> "", items |-> items]

\* an object: its properties in insertion order; and a value that is no object
Obj(members) == [t |-> "object", members |-> members]
NonObj(t) == [t |-> t, members |-> <<>>]

\* obj[key]: undefined for a property the object does not have
Get(obj, key) ==
  IF \E i \in 1..Len(obj.members) : obj.members[i][1] = key
    THEN obj.members[CHOOSE i \in 1..Len(obj.members) :
                       /\ obj.members[i][1] = key
                       /\ \A j \in (i + 1)..Len(obj.members) : obj.members[j][1] # key][2]
  ELSE Undef

\* the path strings of the model: whether Path.isAbsolute accepts them and the
\* directory Path.resolve turns them into
StringTable ==
  << [str |-> "/repo", abs |-> TRUE, segs |-> <<"repo">>],
     [str |-> "repo", abs |-> FALSE, segs |-> <<"cwd", "repo">>],
     [str |-> "/repo/plugins/foo", abs |-> TRUE, segs |-> <<"repo", "plugins", "foo">>],
     [str |-> "/other/foo", abs |-> TRUE, segs |-> <<"other", "foo">>],
     [str |-> "plugins/foo", abs |-> FALSE, segs |-> <<"cwd", "plugins", "foo">>],
     [str |-> "/out/foo", abs |-> TRUE, segs |-> <<"out", "foo">>],
     [str |-> "/out/foo/", abs |-> TRUE, segs |-> <<"out", "foo">>],
     [str |-> "/out/bar", abs |-> TRUE, segs |-> <<"out", "bar">>],
     [str |-> "out", abs |-> FALSE, segs |-> <<"cwd", "out">>],
     [str |-> "/repo/plugins/foo/opensearch_dashboards.json", abs |-> TRUE,
      segs |-> <<"repo", "plugins", "foo", "opensearch_dashboards.json">>],
     [str |-> "opensearch_dashboards.json", abs |-> FALSE,
      segs |-> <<"cwd", "opensearch_dashboards.json">>] >>

\* Path.isAbsolute(s): no other string of the model starts with '/'
isAbsolute(s) ==
  \E i \in 1..Len(StringTable) : StringTable[i].str = s /\ StringTable[i].abs

VALID_BUNDLE_TYPES == {"plugin", "entry"}

\* includes(VALID_BUNDLE_TYPES, type)
includes(array, value) == value.t = "string" /\ value.s \in array

\* typeof value === 'string'
isStringValue(value) == value.t = "string"

\* Array.isArray(input) && input.every((x) => typeof x === 'string')
isStringArray(input) ==
  input.t = "array" /\ \A i \in 1..Len(input.items) : isStringValue(input.items[i])

\* mutant: every string passes for an absolute path
MutPathNotTested(value) == isStringValue(value)

\* typeof value === 'string' && Path.isAbsolute(value)
isAbsoluteString(value) == isStringValue(value) /\ isAbsolute(value.s)

\* mutant: the constructor takes the sourceRoot for the contextDir
MutContextDirFromSourceRoot(spec) ==
  [type |-> spec.type,
   id |-> spec.id,
   publicDirNames |-> spec.publicDirNames,
   contextDir |-> spec.sourceRoot,
   sourceRoot |-> spec.sourceRoot,
   outputDir |-> spec.outputDir,
   manifestPath |-> spec.manifestPath,
   banner |-> spec.banner]

\* new Bundle(spec): the eight fields the constructor copies
Bundle(spec) ==
  [type |-> spec.type,
   id |-> spec.id,
   publicDirNames |-> spec.publicDirNames,
   contextDir |-> spec.contextDir,
   sourceRoot |-> spec.sourceRoot,
   outputDir |-> spec.outputDir,
   manifestPath |-> spec.manifestPath,
   banner |-> spec.banner]

\* the Bundle of an element that was not turned into one
NoBundle ==
  Bundle([type |-> Undef, id |-> Undef, publicDirNames |-> Undef, contextDir |-> Undef,
          sourceRoot |-> Undef, outputDir |-> Undef, manifestPath |-> Undef,
          banner |-> Undef])

\* mutant: toSpec leaves the banner out
MutToSpecWithoutBanner(this) ==
  [type |-> this.type,
   id |-> this.id,
   publicDirNames |-> this.publicDirNames,
   contextDir |-> this.contextDir,
   sourceRoot |-> this.sourceRoot,
   outputDir |-> this.outputDir,
   manifestPath |-> this.manifestPath,
   banner |-> Undef]

\* Bundle.toSpec() of a Bundle object
ToSpec(this) ==
  [type |-> this.type,
   id |-> this.id,
   publicDirNames |-> this.publicDirNames,
   contextDir |-> this.contextDir,
   sourceRoot |-> this.sourceRoot,
   outputDir |-> this.outputDir,
   manifestPath |-> this.manifestPath,
   banner |-> this.banner]

\* the properties of a BundleSpec object literal, in the order toSpec writes them
SpecMembers(spec) ==
  << <<"type", spec.type>>, <<"id", spec.id>>, <<"publicDirNames", spec.publicDirNames>>,
     <<"contextDir", spec.contextDir>>, <<"sourceRoot", spec.sourceRoot>>,
     <<"outputDir", spec.outputDir>>, <<"manifestPath", spec.manifestPath>>,
     <<"banner", spec.banner>> >>

\* JSON.parse(JSON.stringify(spec)): a property whose value is undefined is
\* not written
StringifySpec(spec) ==
  Obj(SelectSeq(SpecMembers(spec), LAMBDA m : m[2].t # "undefined"))

\* a JSON text that holds an array of the given elements
JsonArray(elems) == [isString |-> TRUE, syntaxOk |-> TRUE, isArray |-> TRUE, elems |-> elems]

Thrown(message) == [ok |-> FALSE, message |-> message, bundle |-> NoBundle]

\* spec && typeof spec === 'object': an array is an object without the
\* properties of a BundleSpec
isObject(spec) == spec.t \in {"object", "array"}

\* the callback of specs.map: the checks in source order, then new Bundle
\* (the messages are written with ' where the source has a backquote)
ParseSpec(spec) ==
  IF ~isObject(spec) THEN Thrown("'bundles[]' must be an object")
  ELSE
    LET type == Get(spec, "type")
        id == Get(spec, "id")
        publicDirNames == Get(spec, "publicDirNames")
        contextDir == Get(spec, "contextDir")
        sourceRoot == Get(spec, "sourceRoot")
        outputDir == Get(spec, "outputDir")
        manifestPath == Get(spec, "manifestPath")
        banner == Get(spec, "banner")
    IN IF ~includes(VALID_BUNDLE_TYPES, type)
         THEN Thrown("'bundles[]' must have a valid 'type'")
       ELSE IF ~isStringValue(id)
         THEN Thrown("'bundles[]' must have a string 'id' property")
       ELSE IF ~isStringArray(publicDirNames)
         THEN Thrown("'bundles[]' must have an array of strings 'publicDirNames' property")
       ELSE IF ~isAbsoluteString(contextDir)
         THEN Thrown("'bundles[]' must have an absolute path 'contextDir' property")
       ELSE IF ~isAbsoluteString(sourceRoot)
         THEN Thrown("'bundles[]' must have an absolute path 'sourceRoot' property")
       ELSE IF ~isAbsoluteString(outputDir)
         THEN Thrown("'bundles[]' must have an absolute path 'outputDir' property")
       ELSE IF manifestPath # Undef /\ ~isAbsoluteString(manifestPath)
         THEN Thrown("'bundles[]' must have an absolute path 'manifestPath' property")
       ELSE IF banner # Undef /\ ~isStringValue(banner)
         THEN Thrown("'bundles[]' must have a string 'banner' property")
       ELSE [ok |-> TRUE, message |-> "",
             bundle |-> Bundle([type |-> type, id |-> id,
                                publicDirNames |-> publicDirNames,
                                contextDir |-> contextDir, sourceRoot |-> sourceRoot,
                                outputDir |-> outputDir, banner |-> banner,
                                manifestPath |-> manifestPath])]

\* mutant: an element that fails a check is left out of the result
RECURSIVE MutInvalidSkipped(_)
MutInvalidSkipped(specs) ==
  IF specs = <<>> THEN [ok |-> TRUE, message |-> "", bundles |-> <<>>]
  ELSE LET first == ParseSpec(Head(specs))
           rest == MutInvalidSkipped(Tail(specs))
       IN IF ~first.ok THEN rest
          ELSE [rest EXCEPT !.bundles = <<first.bundle>> \o @]

\* specs.map(...): the bundles of the elements in order, up to the first throw
RECURSIVE ParseSpecs(_)
ParseSpecs(specs) ==
  IF specs = <<>> THEN [ok |-> TRUE, message |-> "", bundles |-> <<>>]
  ELSE LET first == ParseSpec(Head(specs))
       IN IF ~first.ok THEN [ok |-> FALSE, message |-> first.message, bundles |-> <<>>]
          ELSE LET rest == ParseSpecs(Tail(specs))
               IN IF ~rest.ok THEN rest
                  ELSE [rest EXCEPT !.bundles = <<first.bundle>> \o @]

\* the message of the SyntaxError JSON.parse throws
SyntaxErrorMessage == "Unexpected token"

\* the body of the try block of parseBundles
TryParseBundles(input) ==
  IF ~input.isString THEN [ok |-> FALSE, message |-> "must be a JSON string", bundles |-> <<>>]
  ELSE IF ~input.syntaxOk
    THEN [ok |-> FALSE, message |-> SyntaxErrorMessage, bundles |-> <<>>]
  ELSE IF ~input.isArray THEN [ok |-> FALSE, message |-> "must be an array", bundles |-> <<>>]
  ELSE ParseSpecs(input.elems)

\* parseBundles(json): the bundles, or the error of the catch block, whose
\* message is 'unable to parse bundles: ' followed by the message caught
parseBundles(input) ==
  LET tried == TryParseBundles(input)
  IN IF tried.ok THEN [ok |-> TRUE, message |-> <<"", "">>, bundles |-> tried.bundles]
     ELSE [ok |-> FALSE, message |-> <<"unable to parse bundles: ", tried.message>>,
           bundles |-> <<>>]

(***************************************************************************)
(* parseBundles calls                                                      *)
(***************************************************************************)
\* the values an element of the bundle list has for each property
TypeVals == {Str("plugin"), Str("entry"), Str("other"), Undef}
IdVals == {Str("foo"), Num}
PublicDirNamesVals == {Arr(<<Str("public")>>), Arr(<<Str("public"), Num>>), Str("public")}
ContextDirVals == {Str("/repo/plugins/foo"), Str("/other/foo"), Str("plugins/foo")}
SourceRootVals == {Str("/repo"), Str("repo")}
OutputDirVals == {Str("/out/foo"), Str("/out/foo/"), Str("/out/bar"), Str("out")}
ManifestPathVals ==
  {Undef, Str("/repo/plugins/foo/opensearch_dashboards.json"),
   Str("opensearch_dashboards.json"), Null}
BannerVals == {Undef, Str("banner"), Num}

SpecSamples ==
  {StringifySpec(spec) :
     spec \in [type : TypeVals, id : IdVals, publicDirNames : PublicDirNamesVals,
               contextDir : ContextDirVals, sourceRoot : SourceRootVals,
               outputDir : OutputDirVals, manifestPath : ManifestPathVals,
               banner : BannerVals]}

\* a spec that passes every check
ValidSpec(id, outputDir) ==
  [type |-> Str("plugin"), id |-> Str(id), publicDirNames |-> Arr(<<Str("public")>>),
   contextDir |-> Str("/repo/plugins/foo"), sourceRoot |-> Str("/repo"),
   outputDir |-> Str(outputDir), manifestPath |-> Undef, banner |-> Undef]

\* the elements of the longer bundle lists
ListElems ==
  {StringifySpec(ValidSpec("foo", "/out/foo")),
   StringifySpec(ValidSpec("bar", "/out/foo/")),
   StringifySpec(ValidSpec("baz", "/out/bar")),
   StringifySpec([ValidSpec("foo", "/out/foo") EXCEPT !.type = Str("other")]),
   StringifySpec([ValidSpec("foo", "/out/foo") EXCEPT !.banner = Num]),
   NonObj("null")}

\* the arguments of parseBundles: a value that is no string, a string that
\* is no JSON text, a JSON text that holds no array, and JSON arrays
ParseInputs ==
  {[isString |-> FALSE, syntaxOk |-> FALSE, isArray |-> FALSE, elems |-> <<>>],
   [isString |-> TRUE, syntaxOk |-> FALSE, isArray |-> FALSE, elems |-> <<>>],
   [isString |-> TRUE, syntaxOk |-> TRUE, isArray |-> FALSE, elems |-> <<>>]}
  \cup {JsonArray(<<spec>>) :
          spec \in SpecSamples \cup {NonObj("null"), NonObj("number"), NonObj("array")}}
  \cup {JsonArray(specs) : specs \in SeqsUpTo(ListElems, MaxSpecs)}

\* parseBundles(json) is called
ParseBundles ==
  /\ parsed.state = "pending"
  /\ LET result == parseBundles(json)
     IN parsed' = [state |-> "done", ok |-> result.ok, message |-> result.message,
                   bundles |-> result.bundles, origin |-> parsed.origin]
  /\ UNCHANGED <<cacheVars, compilerVars, keyVars, json, depsVars, storeVars, otherVars>>

\* a returned bundle is handed on as JSON.stringify([bundle.toSpec()])
Restringify(i) ==
  /\ parsed.state = "done"
  /\ parsed.ok
  /\ parsed.origin = <<>>
  /\ i \in 1..Len(parsed.bundles)
  /\ json' = JsonArray(<<StringifySpec(ToSpec(parsed.bundles[i]))>>)
  /\ parsed' = [state |-> "pending", ok |-> FALSE, message |-> <<"", "">>, bundles |-> <<>>,
                origin |-> <<parsed.bundles[i]>>]
  /\ UNCHANGED <<cacheVars, compilerVars, keyVars, depsVars, storeVars, otherVars>>

InitParse ==
  /\ NoRun
  /\ NoOtherCalls
  /\ NoKeyCall
  /\ NoDepsCall
  /\ NoStoreCall
  /\ json \in ParseInputs
  /\ parsed = [state |-> "pending", ok |-> FALSE, message |-> <<"", "">>, bundles |-> <<>>,
               origin |-> <<>>]

NextParse ==
  \/ ParseBundles
  \/ \E i \in 1..MaxSpecs : Restringify(i)

SpecParse == InitParse /\ [][NextParse]_vars

(***************************************************************************)
(* Properties of parseBundles and toSpec                                   *)
(***************************************************************************)
\* C23: parseBundles of JSON.stringify([b.toSpec()]), for a bundle b that
\* parseBundles returned, succeeds with one bundle whose eight fields equal
\* those of b
C23_ToSpecRoundTrips ==
  (parsed.state = "done" /\ parsed.origin # <<>>) =>
    /\ parsed.ok
    /\ Len(parsed.bundles) = 1
    /\ LET was == parsed.origin[1]
           now == parsed.bundles[1]
       IN /\ now.type = was.type
          /\ now.id = was.id
          /\ now.publicDirNames = was.publicDirNames
          /\ now.contextDir = was.contextDir
          /\ now.sourceRoot = was.sourceRoot
          /\ now.outputDir = was.outputDir
          /\ now.banner = was.banner
          /\ now.manifestPath = was.manifestPath

\* a bundle without banner and without manifestPath came back from the round trip
C23_Witness ==
  /\ parsed.state = "done"
  /\ parsed.origin # <<>>
  /\ parsed.ok
  /\ parsed.origin[1].banner = Undef
  /\ parsed.origin[1].manifestPath = Undef
  /\ parsed.bundles = parsed.origin

\* the constraints on the properties of an element, in the order type, id,
\* publicDirNames, contextDir, sourceRoot, outputDir, manifestPath, banner
ConstraintViolated(spec, k) ==
  LET IsAbsolutePath(value) ==
        value.t = "string" /\ \E i \in 1..Len(StringTable) :
                                StringTable[i].str = value.s /\ StringTable[i].abs
      IsStrings(value) ==
        value.t = "array" /\ \A i \in 1..Len(value.items) : value.items[i].t = "string"
  IN CASE k = 1 -> Get(spec, "type") \notin {Str("plugin"), Str("entry")}
       [] k = 2 -> Get(spec, "id").t # "string"
       [] k = 3 -> ~IsStrings(Get(spec, "publicDirNames"))
       [] k = 4 -> ~IsAbsolutePath(Get(spec, "contextDir"))
       [] k = 5 -> ~IsAbsolutePath(Get(spec, "sourceRoot"))
       [] k = 6 -> ~IsAbsolutePath(Get(spec, "outputDir"))
       [] k = 7 -> Get(spec, "manifestPath").t # "undefined"
                     /\ ~IsAbsolutePath(Get(spec, "manifestPath"))
       [] k = 8 -> Get(spec, "banner").t \notin {"undefined", "string"}

ConstraintMessages ==
  << "'bundles[]' must have a valid 'type'",
     "'bundles[]' must have a string 'id' property",
     "'bundles[]' must have an array of strings 'publicDirNames' property",
     "'bundles[]' must have an absolute path 'contextDir' property",
     "'bundles[]' must have an absolute path 'sourceRoot' property",
     "'bundles[]' must have an absolute path 'outputDir' property",
     "'bundles[]' must have an absolute path 'manifestPath' property",
     "'bundles[]' must have a string 'banner' property" >>

\* the least number of a nonempty set of numbers
Least(S) == CHOOSE n \in S : \A m \in S : n <= m

\* the message of the first constraint an element violates, "" if none
FirstViolation(spec) ==
  IF ~isObject(spec) THEN "'bundles[]' must be an object"
  ELSE LET violated == {k \in 1..8 : ConstraintViolated(spec, k)}
       IN IF violated = {} THEN "" ELSE ConstraintMessages[Least(violated)]

\* the message of the first violation of an argument of parseBundles, "" if none
ExpectedViolation(input) ==
  IF ~input.isString THEN "must be a JSON string"
  ELSE IF ~input.syntaxOk THEN SyntaxErrorMessage
  ELSE IF ~input.isArray THEN "must be an array"
  ELSE LET invalid == {i \in 1..Len(input.elems) : FirstViolation(input.elems[i]) # ""}
       IN IF invalid = {} THEN "" ELSE FirstViolation(input.elems[Least(invalid)])

\* C24: a parseBundles call whose argument is no string, no JSON text, no
\* array, or has an element that violates a constraint throws one error whose
\* message is 'unable to parse bundles: ' followed by the message of the
\* first violation, elements in array order and constraints in the order
\* above, and returns no bundle; every other call returns one bundle per element
C24_AllOrNothing ==
  parsed.state = "done" =>
    IF ExpectedViolation(json) # ""
      THEN /\ ~parsed.ok
           /\ parsed.message = <<"unable to parse bundles: ", ExpectedViolation(json)>>
           /\ parsed.bundles = <<>>
    ELSE /\ parsed.ok
         /\ Len(parsed.bundles) = Len(json.elems)

\* a list whose first element is valid and whose second has a banner that
\* is no string was rejected as a whole
C24_Witness ==
  /\ parsed.state = "done"
  /\ Len(json.elems) = 2
  /\ FirstViolation(json.elems[1]) = ""
  /\ ~parsed.ok
  /\ parsed.message = <<"unable to parse bundles: ", ConstraintMessages[8]>>
  /\ parsed.bundles = <<>>

\* the row of the path table for a string, and whether the string is a path
\* that starts at the root
HasRow(s) == \E i \in 1..Len(StringTable) : StringTable[i].str = s
RowOf(s) == StringTable[CHOOSE i \in 1..Len(StringTable) : StringTable[i].str = s]
IsAbsolutePathValue(value) == value.t = "string" /\ HasRow(value.s) /\ RowOf(value.s).abs

\* C25: every bundle a parseBundles call returned has a type of plugin or
\* entry, a string id, an array of strings as publicDirNames, absolute paths
\* as contextDir, sourceRoot and outputDir, a manifestPath that is undefined
\* or an absolute path, and a banner that is undefined or a string
C25_ReturnedBundlesAreValid ==
  (parsed.state = "done" /\ parsed.ok) =>
    \A i \in 1..Len(parsed.bundles) :
      LET bundle == parsed.bundles[i]
      IN /\ bundle.type \in {Str("plugin"), Str("entry")}
         /\ bundle.id.t = "string"
         /\ bundle.publicDirNames.t = "array"
         /\ \A j \in 1..Len(bundle.publicDirNames.items) :
              bundle.publicDirNames.items[j].t = "string"
         /\ IsAbsolutePathValue(bundle.contextDir)
         /\ IsAbsolutePathValue(bundle.sourceRoot)
         /\ IsAbsolutePathValue(bundle.outputDir)
         /\ bundle.manifestPath = Undef \/ IsAbsolutePathValue(bundle.manifestPath)
         /\ bundle.banner = Undef \/ bundle.banner.t = "string"

\* a returned bundle of type entry with a manifestPath and a banner
C25_Witness ==
  /\ parsed.state = "done"
  /\ parsed.ok
  /\ Len(parsed.bundles) = 1
  /\ parsed.bundles[1].type = Str("entry")
  /\ parsed.bundles[1].manifestPath = Str("/repo/plugins/foo/opensearch_dashboards.json")
  /\ parsed.bundles[1].banner = Str("banner")

\* directory `dir` is `root` or lies below it
IsInside(dir, root) ==
  LET d == RowOf(dir).segs
      r == RowOf(root).segs
  IN Len(r) <= Len(d) /\ SubSeq(d, 1, Len(r)) = r

\* C26 as stated: the contextDir of every returned bundle is its sourceRoot or
\* lies below it
C26_AsStated ==
  (parsed.state = "done" /\ parsed.ok) =>
    \A i \in 1..Len(parsed.bundles) :
      IsInside(parsed.bundles[i].contextDir.s, parsed.bundles[i].sourceRoot.s)

\* C26: a bundle list without a violated constraint is accepted whether or not
\* a contextDir lies below its sourceRoot, and every returned bundle has the
\* contextDir and the sourceRoot of its element, each an absolute path
C26_ContextDirAndSourceRootUnrelated ==
  (parsed.state = "done" /\ ExpectedViolation(json) = "") =>
    /\ parsed.ok
    /\ Len(parsed.bundles) = Len(json.elems)
    /\ \A i \in 1..Len(parsed.bundles) :
         /\ parsed.bundles[i].contextDir = Get(json.elems[i], "contextDir")
         /\ parsed.bundles[i].sourceRoot = Get(json.elems[i], "sourceRoot")
         /\ IsAbsolutePathValue(parsed.bundles[i].contextDir)
         /\ IsAbsolutePathValue(parsed.bundles[i].sourceRoot)

\* a returned bundle whose contextDir does not lie below its sourceRoot
C26_Witness ==
  /\ parsed.state = "done"
  /\ parsed.ok
  /\ Len(parsed.bundles) = 1
  /\ parsed.bundles[1].contextDir = Str("/other/foo")
  /\ parsed.bundles[1].sourceRoot = Str("/repo")
  /\ ~IsInside("/other/foo", "/repo")


(***************************************************************************)
(* Bundle.readBundleDeps (src/unnamed/part_000)                            *)
(***************************************************************************)
DEFAULT_IMPLICIT_BUNDLE_DEPS == <<Str("core")>>

\* further JSON values a manifest property can hold
False == [t |-> "boolean", s |-> "false", items |-> <<>>]
True == [t |-> "boolean", s |-> "true", items |-> <<>>]
Zero == [t |-> "number", s |-> "0", items |-> <<>>]
EmptyObject == [t |-> "object", s |-> "", items |-> <<>>]

\* the characters of the strings a manifest property holds in the model
Chars(s) ==
  IF s = "ab" THEN <<Str("a"), Str("b")>>
  ELSE IF s = "x" THEN <<Str("x")>>
  ELSE <<>>

\* a value that `||` and `!` take for false: undefined, null, false, 0, ''
IsFalsy(value) ==
  \/ value.t \in {"undefined", "null"}
  \/ value = False
  \/ value = Zero
  \/ value = Str("")

\* value || []
OrEmptyArray(value) == IF IsFalsy(value) THEN Arr(<<>>) ELSE value

\* whether ...value throws in an array literal: only arrays and strings
\* can be iterated
IsIterable(value) == value.t \in {"array", "string"}

\* the elements ...value spreads into an array literal
Spread(value) == IF value.t = "string" THEN Chars(value.s) ELSE value.items

\* what Fs.readFileSync(manifestPath, 'utf8') does: it throws an error with a
\* code, or it returns the text of the file
ReadThrows(file) == file.read # "ok"
FsError(path, file) == [kind |-> "read", path |-> path, detail |-> file.read]
\* `file` has the value JSON.parse made of the text read, as `{}` has
EmptyManifest ==
  [read |-> "ok", syntaxOk |-> TRUE, t |-> "object", requiredBundles |-> Undef,
   requiredPlugins |-> Undef]

NoError == [kind |-> "", path |-> "", detail |-> ""]

\* mutant: no read failure is rethrown
MutReadErrorsSwallowed(error) == FALSE

\* error.code !== 'ENOENT'
IsRethrown(error) == error.detail # "ENOENT"

\* mutant: requiredPlugins come before the default dependencies
MutDefaultsLast(requiredPlugins) ==
  Spread(OrEmptyArray(requiredPlugins)) \o DEFAULT_IMPLICIT_BUNDLE_DEPS

\* [...DEFAULT_IMPLICIT_BUNDLE_DEPS, ...(parsedManifest.requiredPlugins || [])]
Implicit(requiredPlugins) ==
  DEFAULT_IMPLICIT_BUNDLE_DEPS \o Spread(OrEmptyArray(requiredPlugins))

Returned(implicit, explicit) ==
  [kind |-> "returned", thrown |-> NoError, implicit |-> implicit, explicit |-> explicit]
Throws(error) ==
  [kind |-> "thrown", thrown |-> error, implicit |-> <<>>, explicit |-> <<>>]

\* the text of the error at the end of readBundleDeps; the path of the
\* manifest, which the text holds in brackets, is kept beside it
ValidationMessage ==
  "Expected \"requiredBundles\" and \"requiredPlugins\" in manifest file [] to be arrays of strings"

\* the statements of readBundleDeps after the text was read: JSON.parse, the
\* test of the parsed manifest, and the error at the end
DepsOfText(manifestPath, file) ==
  IF ~file.syntaxOk
    THEN Throws([kind |-> "unable to parse manifest at", path |-> manifestPath.s,
                 detail |-> SyntaxErrorMessage])
  ELSE IF file.t \in {"object", "array"}
          /\ ~IsIterable(OrEmptyArray(file.requiredPlugins))
    THEN Throws([kind |-> "TypeError", path |-> "", detail |-> "is not iterable"])
  ELSE IF /\ file.t \in {"object", "array"}
          /\ isStringArray(OrEmptyArray(file.requiredBundles))
          /\ isStringArray(Arr(Implicit(file.requiredPlugins)))
    THEN Returned(Implicit(file.requiredPlugins), OrEmptyArray(file.requiredBundles).items)
  ELSE Throws([kind |-> ValidationMessage, path |-> manifestPath.s, detail |-> ""])

\* this.readBundleDeps()
readBundleDeps(manifestPath, file) ==
  IF IsFalsy(manifestPath)
    THEN Returned(DEFAULT_IMPLICIT_BUNDLE_DEPS, <<>>)
  ELSE IF ReadThrows(file)
    THEN IF IsRethrown(FsError(manifestPath.s, file))
           THEN Throws(FsError(manifestPath.s, file))
         ELSE DepsOfText(manifestPath, EmptyManifest)
  ELSE DepsOfText(manifestPath, file)

(***************************************************************************)
(* readBundleDeps calls: a bundle with or without a manifestPath, and the  *)
(* file system under it                                                    *)
(***************************************************************************)
\* the values of requiredBundles and of requiredPlugins in a manifest
PropertyVals ==
  {Undef, Null, False, True, Zero, Num, Str(""), Str("ab"), EmptyObject,
   Arr(<<>>), Arr(<<Str("x")>>), Arr(<<Str("x"), Str("y")>>), Arr(<<Str("y"), Str("x")>>),
   Arr(<<Num>>), Arr(<<Str("x"), Null>>)}

\* the outcomes of reading the manifest file: it is missing, it cannot be
\* read, its text is no JSON, or its JSON is a value that is no object, an
\* array, or an object with the two properties
ManifestFiles ==
  {[read |-> code, syntaxOk |-> FALSE, t |-> "undefined", requiredBundles |-> Undef,
    requiredPlugins |-> Undef] : code \in {"ENOENT", "EACCES", "EISDIR"}}
  \cup {[read |-> "ok", syntaxOk |-> FALSE, t |-> "undefined", requiredBundles |-> Undef,
         requiredPlugins |-> Undef]}
  \cup {[read |-> "ok", syntaxOk |-> TRUE, t |-> t, requiredBundles |-> Undef,
         requiredPlugins |-> Undef] : t \in {"null", "number", "string", "boolean", "array"}}
  \cup [read : {"ok"}, syntaxOk : {TRUE}, t : {"object"}, requiredBundles : PropertyVals,
        requiredPlugins : PropertyVals]

\* the manifestPath of a bundle parseBundles returns
BundleManifestPaths == {Undef, Str("/repo/plugins/foo/opensearch_dashboards.json")}

\* bundle.readBundleDeps() is called
ReadBundleDeps ==
  /\ depsCall.state = "args"
  /\ LET result == readBundleDeps(depsCall.manifestPath, manifestFile)
     IN depsCall' = [state |-> "done", manifestPath |-> depsCall.manifestPath,
                     kind |-> result.kind, thrown |-> result.thrown,
                     implicit |-> result.implicit, explicit |-> result.explicit]
  /\ UNCHANGED <<cacheVars, compilerVars, keyVars, parseVars, storeVars, manifestFile, otherVars>>

\* the manifest file changes between two calls, and the bundle is asked again
RewriteManifest ==
  /\ depsCall.state = "done"
  /\ manifestFile.read = "ENOENT"
  /\ manifestFile' \in {file \in ManifestFiles : file.read = "ok"}
  /\ depsCall' = [state |-> "args", manifestPath |-> depsCall.manifestPath, kind |-> "",
                  thrown |-> NoError, implicit |-> <<>>, explicit |-> <<>>]
  /\ UNCHANGED <<cacheVars, compilerVars, keyVars, parseVars, storeVars, otherVars>>

InitDeps ==
  /\ NoRun
  /\ NoOtherCalls
  /\ NoKeyCall
  /\ NoParseCall
  /\ NoStoreCall
  /\ manifestFile \in ManifestFiles
  /\ depsCall \in [state : {"args"}, manifestPath : BundleManifestPaths, kind : {""},
                   thrown : {NoError}, implicit : {<<>>}, explicit : {<<>>}]

NextDeps == ReadBundleDeps \/ RewriteManifest

SpecDeps == InitDeps /\ [][NextDeps]_vars


(***************************************************************************)
(* Properties of readBundleDeps                                            *)
(***************************************************************************)
\* the result {implicit: ['core'], explicit: []}
IsDefaultDeps(call) ==
  /\ call.kind = "returned"
  /\ call.implicit = <<Str("core")>>
  /\ call.explicit = <<>>

\* C27: readBundleDeps returns {implicit: ['core'], explicit: []} when the
\* bundle has no manifestPath and when the file at manifestPath does not
\* exist; every other failure to read the file is thrown on as it was raised
C27_DefaultsAndReadFailures ==
  depsCall.state = "done" =>
    /\ depsCall.manifestPath = Undef => IsDefaultDeps(depsCall)
    /\ (depsCall.manifestPath # Undef /\ manifestFile.read = "ENOENT") =>
         IsDefaultDeps(depsCall)
    /\ (depsCall.manifestPath # Undef /\ manifestFile.read \notin {"ok", "ENOENT"}) =>
         /\ depsCall.kind = "thrown"
         /\ depsCall.thrown = [kind |-> "read", path |-> depsCall.manifestPath.s,
                               detail |-> manifestFile.read]

\* a call that threw the EACCES error of the read
C27_Witness ==
  /\ depsCall.state = "done"
  /\ depsCall.manifestPath # Undef
  /\ manifestFile.read = "EACCES"
  /\ depsCall.kind = "thrown"
  /\ depsCall.thrown.detail = "EACCES"

\* a manifest property that is not there, or an array of strings
AbsentOrStrings(value) ==
  \/ value = Undef
  \/ value.t = "array" /\ \A i \in 1..Len(value.items) : value.items[i].t = "string"

\* the elements of a manifest property, none when it is not there
ItemsOf(value) == IF value = Undef THEN <<>> ELSE value.items

\* a readBundleDeps call that parsed the text of the manifest file
ManifestParsed ==
  /\ depsCall.state = "done"
  /\ depsCall.manifestPath # Undef
  /\ manifestFile.read = "ok"
  /\ manifestFile.syntaxOk

\* C28: for a manifest that is an object whose requiredPlugins and
\* requiredBundles are each absent or an array of strings, readBundleDeps
\* returns 'core' followed by requiredPlugins as implicit and requiredBundles
\* as explicit, both in the order of the manifest
C28_DepsOfManifest ==
  (/\ ManifestParsed
   /\ manifestFile.t = "object"
   /\ AbsentOrStrings(manifestFile.requiredPlugins)
   /\ AbsentOrStrings(manifestFile.requiredBundles)) =>
    /\ depsCall.kind = "returned"
    /\ depsCall.implicit = <<Str("core")>> \o ItemsOf(manifestFile.requiredPlugins)
    /\ depsCall.explicit = ItemsOf(manifestFile.requiredBundles)

\* a manifest with two requiredPlugins and no requiredBundles was read
C28_Witness ==
  /\ ManifestParsed
  /\ manifestFile.t = "object"
  /\ manifestFile.requiredPlugins = Arr(<<Str("y"), Str("x")>>)
  /\ manifestFile.requiredBundles = Undef
  /\ depsCall.implicit = <<Str("core"), Str("y"), Str("x")>>
  /\ depsCall.explicit = <<>>

\* C29 as stated: readBundleDeps throws the validation error with the path of
\* the manifest whenever the parsed manifest is no object (an array counts as
\* an object here, as it does for typeof), or requiredBundles or
\* requiredPlugins is there with a value that is no array of strings
C29_AsStated ==
  (/\ ManifestParsed
   /\ \/ manifestFile.t \notin {"object", "array"}
      \/ ~AbsentOrStrings(manifestFile.requiredBundles)
      \/ ~AbsentOrStrings(manifestFile.requiredPlugins)) =>
    /\ depsCall.kind = "thrown"
    /\ depsCall.thrown.kind = ValidationMessage
    /\ depsCall.thrown.path = depsCall.manifestPath.s


(***************************************************************************)
(* The cache stores of parsed bundles: Bundle.cache (src/unnamed/part_000) *)
(* with set and get as the specification of the store describes them       *)
(***************************************************************************)
\* Path.resolve(dir): the directory a path string names
Resolve(dir) == RowOf(dir).segs

\* mutant: the store lies beside the output directory
MutCacheBesideOutputDir(bundle) ==
  SubSeq(Resolve(bundle.outputDir.s), 1, Len(Resolve(bundle.outputDir.s)) - 1)
    \o <<".osd-optimizer-cache">>

\* Path.resolve(this.outputDir, '.osd-optimizer-cache')
CachePath(bundle) == Resolve(bundle.outputDir.s) \o <<".osd-optimizer-cache">>

\* the records a store holds in the model
RecordVals == {"r1", "r2"}

\* bundle.cache.get(): the record in the file of the store, the empty record
\* when there is no file
get(bundle) ==
  IF CachePath(bundle) \in DOMAIN stores THEN stores[CachePath(bundle)] ELSE "empty"

\* the files after bundle.cache.set(record)
set(bundle, record) ==
  [dir \in DOMAIN stores \cup {CachePath(bundle)} |->
     IF dir = CachePath(bundle) THEN record ELSE stores[dir]]

\* the lists of two bundles parseBundles returns
BundlePairs ==
  {parseBundles(JsonArray(specs)).bundles :
     specs \in {pair \in SeqsUpTo(ListElems, 2) :
                  Len(pair) = 2 /\ parseBundles(JsonArray(pair)).ok}}

\* the store directories of those bundles, and the files a run can find there
StoreDirs == {CachePath(pair[i]) : pair \in BundlePairs, i \in 1..2}
StoreFiles == UNION {[dirs -> RecordVals] : dirs \in SUBSET StoreDirs}

\* storeCall.bundles[i].cache.set(record)
StoreSet(i, record) ==
  /\ storeCall.state # "idle"
  /\ stores' = set(storeCall.bundles[i], record)
  /\ storeCall' = [state |-> "set", bundles |-> storeCall.bundles, on |-> i,
                   got |-> storeCall.got]
  /\ UNCHANGED <<cacheVars, compilerVars, keyVars, parseVars, depsVars, otherVars>>

\* storeCall.bundles[i].cache.get()
StoreGet(i) ==
  /\ storeCall.state # "idle"
  /\ storeCall' = [state |-> "get", bundles |-> storeCall.bundles, on |-> i,
                   got |-> get(storeCall.bundles[i])]
  /\ UNCHANGED <<cacheVars, compilerVars, keyVars, parseVars, depsVars, stores, otherVars>>

InitStore ==
  /\ NoRun
  /\ NoOtherCalls
  /\ NoKeyCall
  /\ NoParseCall
  /\ NoDepsCall
  /\ stores \in StoreFiles
  /\ storeCall \in [state : {"parsed"}, bundles : BundlePairs, on : {0}, got : {"empty"}]

NextStore ==
  \/ \E i \in 1..2, record \in RecordVals : StoreSet(i, record)
  \/ \E i \in 1..2 : StoreGet(i)

SpecStore == InitStore /\ [][NextStore]_vars

(***************************************************************************)
(* Properties of the cache stores                                          *)
(***************************************************************************)
\* the output directories of the two bundles are different directories
DistinctOutputDirs(i, j) ==
  RowOf(storeCall.bundles[i].outputDir.s).segs # RowOf(storeCall.bundles[j].outputDir.s).segs

\* C30 as stated: for any two bundles parseBundles returned, a cache.set on
\* one does not change what cache.get returns for the other
C30_AsStated ==
  [][\A i \in 1..2, j \in 1..2, record \in RecordVals :
       (i # j /\ StoreSet(i, record)) =>
         get(storeCall.bundles[j])' = get(storeCall.bundles[j])]_vars

\* C30: for two bundles parseBundles returned whose outputDir name different
\* directories, a cache.set on one does not change what cache.get returns for
\* the other, whatever set and get calls came before
C30_StoresOfDistinctDirsIsolated ==
  [][\A i \in 1..2, j \in 1..2, record \in RecordVals :
       (i # j /\ DistinctOutputDirs(i, j) /\ StoreSet(i, record)) =>
         get(storeCall.bundles[j])' = get(storeCall.bundles[j])]_vars

\* a set on the first bundle came last, and the second bundle, in another
\* output directory, holds another record
C30_Witness ==
  /\ storeCall.state = "set"
  /\ storeCall.on = 1
  /\ DistinctOutputDirs(1, 2)
  /\ get(storeCall.bundles[1]) = "r1"
  /\ get(storeCall.bundles[2]) = "r2"


(***************************************************************************)
(* SearchSource (src/unnamed/part_001): fields, parent, createCopy         *)
(***************************************************************************)
\* the search sources a behaviour constructs, in the order it constructs
\* them; the fields of the model (index is the one createCopy sets again);
\* and the values a field holds, "undefined" being the value of a property
\* that is not there
SourceOrder == <<"s1", "s2", "s3">>
Sources == Range(SourceOrder)
SearchSourceFields == {"index", "size"}
FieldValues == {Undefined, "null", "a"}

\* {}: no property
EmptyFields == [f \in SearchSourceFields |-> Undefined]

\* the object literals a caller hands to setFields
FieldLiterals ==
  {EmptyFields,
   [index |-> "a", size |-> Undefined],
   [index |-> Undefined, size |-> "a"],
   [index |-> "null", size |-> "a"]}

\* a source that was not constructed yet
NoSource == [alive |-> FALSE, fields |-> "", parent |-> Undefined, inheritOptions |-> ""]

\* the sources constructed so far
Alive == {s \in Sources : searchSources[s].alive}

\* the source the next 'new SearchSource' makes
HasNewSource == \E s \in Sources : ~searchSources[s].alive
NewSource ==
  SourceOrder[CHOOSE i \in 1..Len(SourceOrder) :
                /\ ~searchSources[SourceOrder[i]].alive
                /\ \A j \in 1..(i - 1) : searchSources[SourceOrder[j]].alive]

\* a new object for the fields of source s: the objects are named after the
\* sources, and the object named s is taken unless another source has it
NewObject(s) ==
  IF \A t \in Sources \ {s} : searchSources[t].fields # s
    THEN s
  ELSE CHOOSE o \in Sources : \A t \in Sources \ {s} : searchSources[t].fields # o

\* objects no source has any more are forgotten
Collect(sources, objects) ==
  [o \in Sources |->
     IF \E s \in Sources : sources[s].alive /\ sources[s].fields = o
       THEN objects[o]
     ELSE EmptyFields]

\* value == null
IsNullish(value) == value \in {Undefined, "null"}

\* setField(field, value) on the properties of this.fields
AfterSetField(props, field, value) ==
  [props EXCEPT ![field] = IF IsNullish(value) THEN Undefined ELSE value]

\* what a getField call that never returns (the parents form a cycle without
\* a value for the field) is recorded as
StackOverflow == "RangeError"

RECURSIVE MutGetFieldFromParentFirst(_, _, _, _, _, _)
\* mutant: the parent is asked before the own fields
MutGetFieldFromParentFirst(sources, objects, s, field, recurse, visited) ==
  LET own == objects[sources[s].fields][field]
      parent == sources[s].parent
  IN IF ~recurse \/ parent = Undefined \/ parent \in visited \cup {s}
       THEN own
     ELSE LET above == MutGetFieldFromParentFirst(sources, objects, parent, field,
                                                  recurse, visited \cup {s})
          IN IF above # Undefined THEN above ELSE own

RECURSIVE GetFieldFrom(_, _, _, _, _, _)
\* getField(field, recurse) on source s; `visited` holds the sources the
\* recursion came through
GetFieldFrom(sources, objects, s, field, recurse, visited) ==
  LET own == objects[sources[s].fields][field]
      parent == sources[s].parent
  IN IF ~recurse \/ own # Undefined THEN own
     ELSE IF parent = Undefined THEN Undefined
     ELSE IF parent \in visited \cup {s} THEN StackOverflow
     ELSE GetFieldFrom(sources, objects, parent, field, TRUE, visited \cup {s})

\* s.getField(field), s.getOwnField(field), s.getParent()
getField(s, field) == GetFieldFrom(searchSources, fieldObjects, s, field, TRUE, {})
getOwnField(s, field) == GetFieldFrom(searchSources, fieldObjects, s, field, FALSE, {})
getParent(s) == searchSources[s].parent

\* new SearchSource({}, dependencies)
Construct ==
  /\ HasNewSource
  /\ searchSources' = [searchSources EXCEPT ![NewSource] =
                         [alive |-> TRUE, fields |-> NewObject(NewSource),
                          parent |-> Undefined, inheritOptions |-> "{}"]]
  /\ UNCHANGED fieldObjects
  /\ UNCHANGED <<cacheVars, compilerVars, keyVars, parseVars, depsVars, storeVars, verifyVars>>

\* p.createChild()
CreateChild(p) ==
  /\ searchSources[p].alive
  /\ HasNewSource
  /\ searchSources' = [searchSources EXCEPT ![NewSource] =
                         [alive |-> TRUE, fields |-> NewObject(NewSource),
                          parent |-> p, inheritOptions |-> "{}"]]
  /\ UNCHANGED fieldObjects
  /\ UNCHANGED <<cacheVars, compilerVars, keyVars, parseVars, depsVars, storeVars, verifyVars>>

\* s.setField(field, value)
SetField(s, field, value) ==
  /\ searchSources[s].alive
  /\ fieldObjects' =
       [fieldObjects EXCEPT ![searchSources[s].fields] =
          AfterSetField(fieldObjects[searchSources[s].fields], field, value)]
  /\ UNCHANGED searchSources
  /\ UNCHANGED <<cacheVars, compilerVars, keyVars, parseVars, depsVars, storeVars, verifyVars>>

\* s.setFields(newFields) with an object literal
SetFields(s, newFields) ==
  /\ searchSources[s].alive
  /\ LET sources == [searchSources EXCEPT ![s].fields = NewObject(s)]
     IN /\ searchSources' = sources
        /\ fieldObjects' =
             Collect(sources, [fieldObjects EXCEPT ![NewObject(s)] = newFields])
  /\ UNCHANGED <<cacheVars, compilerVars, keyVars, parseVars, depsVars, storeVars, verifyVars>>

\* s.setParent(parent): parent is a source or undefined
SetParent(s, parent) ==
  /\ searchSources[s].alive
  /\ IF parent = Undefined THEN TRUE ELSE searchSources[parent].alive
  /\ searchSources' = [searchSources EXCEPT ![s].parent = parent,
                                            ![s].inheritOptions = "{}"]
  /\ UNCHANGED fieldObjects
  /\ UNCHANGED <<cacheVars, compilerVars, keyVars, parseVars, depsVars, storeVars, verifyVars>>

\* s.createCopy(): setFields({ ...this.fields }) on a new source, then
\* setField('index', this.getField('index')) and setParent(this.getParent());
\* nothing is constructed for good when getField('index') does not return
CreateCopy(s) ==
  /\ searchSources[s].alive
  /\ HasNewSource
  /\ getField(s, "index") # StackOverflow
  /\ LET c == NewSource
         target == NewObject(c)
     IN /\ searchSources' = [searchSources EXCEPT ![c] =
                               [alive |-> TRUE, fields |-> target,
                                parent |-> getParent(s), inheritOptions |-> "{}"]]
        /\ fieldObjects' =
             [fieldObjects EXCEPT ![target] =
                AfterSetField(fieldObjects[searchSources[s].fields], "index",
                              getField(s, "index"))]
  /\ UNCHANGED <<cacheVars, compilerVars, keyVars, parseVars, depsVars, storeVars, verifyVars>>

InitSearch ==
  /\ NoRun
  /\ NoKeyCall
  /\ NoParseCall
  /\ NoDepsCall
  /\ NoStoreCall
  /\ NoVerifyCall
  /\ searchSources = [s \in Sources |-> NoSource]
  /\ fieldObjects = [o \in Sources |-> EmptyFields]

NextSearch ==
  \/ Construct
  \/ \E p \in Sources : CreateChild(p)
  \/ \E s \in Sources, field \in SearchSourceFields, value \in FieldValues :
       SetField(s, field, value)
  \/ \E s \in Sources, newFields \in FieldLiterals : SetFields(s, newFields)
  \/ \E s \in Sources, parent \in Sources \cup {Undefined} : SetParent(s, parent)
  \/ \E s \in Sources : CreateCopy(s)

SpecSearch == InitSearch /\ [][NextSearch]_vars


(***************************************************************************)
(* Properties of SearchSource                                              *)
(***************************************************************************)
\* the source n parent links above s, "undefined" where the links end before
Ancestor(s, n) ==
  LET up[i \in 0..n] ==
        IF i = 0 THEN s
        ELSE IF up[i - 1] = Undefined THEN Undefined
        ELSE searchSources[up[i - 1]].parent
  IN up[n]

\* the own value of a field in the fields object of a source
OwnValue(s, field) == fieldObjects[searchSources[s].fields][field]

\* the distances from s, along the parent links, of the sources that have an
\* own value for the field
DistancesWithValue(s, field) ==
  {n \in 0..(Cardinality(Sources) - 1) :
     Ancestor(s, n) # Undefined /\ OwnValue(Ancestor(s, n), field) # Undefined}

\* the parent links from s end
ChainEnds(s) == \E n \in 1..Cardinality(Sources) : Ancestor(s, n) = Undefined

\* C31, getField: on every source, getField(f) is the own value of f of the
\* nearest source along the parent links, the source itself first, whose own
\* value is not undefined, and it is undefined when the links end without one
C31_NearestValue ==
  \A s \in Alive, field \in SearchSourceFields :
    /\ DistancesWithValue(s, field) # {} =>
         getField(s, field) = OwnValue(Ancestor(s, Least(DistancesWithValue(s, field))), field)
    /\ (DistancesWithValue(s, field) = {} /\ ChainEnds(s)) =>
         getField(s, field) = Undefined

\* C31, getOwnField: on every source, getOwnField(f) is the own value of f,
\* whatever the parent holds
C31_OwnIgnoresParent ==
  \A s \in Alive, field \in SearchSourceFields : getOwnField(s, field) = OwnValue(s, field)

\* C31, setField: after setField(f, null) and after setField(f, undefined)
\* the source has no own value of f, and getField(f) is what the parent gives
C31_NullRemoves ==
  \A s \in Sources, field \in SearchSourceFields, value \in {Undefined, "null"} :
    SetField(s, field, value) =>
      /\ getOwnField(s, field)' = Undefined
      /\ getField(s, field)' =
           IF searchSources[s].parent = Undefined
             THEN Undefined
           ELSE getField(searchSources[s].parent, field)'

\* C31: after any setField, setFields and setParent calls, getField returns
\* the value of the nearest source that has one, getOwnField does not depend
\* on the parent, and setField with null or undefined removes the own value
C31_FieldInheritance ==
  /\ []C31_NearestValue
  /\ []C31_OwnIgnoresParent
  /\ [][C31_NullRemoves]_vars

\* s3 inherits size over two parent links, and the null that s2 holds as index
C31_Witness ==
  /\ Alive = Sources
  /\ searchSources["s3"].parent = "s2"
  /\ searchSources["s2"].parent = "s1"
  /\ searchSources["s1"].parent = Undefined
  /\ OwnValue("s3", "size") = Undefined
  /\ OwnValue("s2", "size") = Undefined
  /\ OwnValue("s1", "size") = "a"
  /\ OwnValue("s3", "index") = Undefined
  /\ OwnValue("s2", "index") = "null"
  /\ OwnValue("s1", "index") = "a"
  /\ getField("s3", "size") = "a"
  /\ getField("s3", "index") = "null"
  /\ getOwnField("s3", "size") = Undefined


\* createCopy returns a source with the own fields and the parent of the original
C32_CopyEqualsOriginal ==
  \A s \in Sources, c \in Sources :
    (HasNewSource /\ c = NewSource /\ CreateCopy(s)) =>
      /\ \A field \in SearchSourceFields :
           getOwnField(c, field)' = getOwnField(s, field)'
      /\ getParent(c)' = getParent(s)'

\* source x is s or is above s along the parent links
IsAbove(x, s) == \E n \in 0..Cardinality(Sources) : Ancestor(s, n) = x

\* a call on source x: setField or setParent
IsCallOn(x) ==
  \/ \E field \in SearchSourceFields, value \in FieldValues : SetField(x, field, value)
  \/ \E parent \in Sources \cup {Undefined} : SetParent(x, parent)

\* setField and setParent on one source change neither the own fields nor
\* the parent of another source, a copy or the original of the first among
\* them, nor what getField returns on a source that does not inherit from the
\* first
C32_CallsKeepOtherSources ==
  \A x \in Alive, y \in Alive :
    (x # y /\ IsCallOn(x)) =>
      /\ getParent(y)' = getParent(y)
      /\ \A field \in SearchSourceFields :
           /\ getOwnField(y, field)' = getOwnField(y, field)
           /\ ~IsAbove(x, y) => getField(y, field)' = getField(y, field)

\* C32 as stated: createCopy returns a new source with the own fields and the
\* parent of the original, and setField and setParent on the copy or on the
\* original afterwards do not change what the other returns
C32_AsStated ==
  /\ [][C32_CopyEqualsOriginal]_vars
  /\ [][C32_CallsKeepOtherSources]_vars


(***************************************************************************)
(* Properties of the subscription of runCompilers                          *)
(***************************************************************************)
\* the positions of the run() and watch() calls among the calls on webpack
TriggerPositions == {i \in DOMAIN history.calls : history.calls[i].call \in {"run", "watch"}}

\* every hook of every compiler was tapped before position i of the calls
AllTappedBefore(i) ==
  \A b \in Bundles : \A hook \in {"beforeRun", "watchRun", "done", "failed"} :
    \E j \in 1..(i - 1) : history.calls[j] = [call |-> "tap", compiler |-> b, hook |-> hook]

\* C33: runCompilers taps beforeRun, watchRun, done and failed of every
\* compiler before it calls run() or watch(), so no hook of a compiler is
\* called before the stream listens to it; a subscription calls exactly one of
\* run() and watch(), the one workerConfig.watch selects, and calls it once.
C33_TapsPrecedeTrigger ==
  /\ [](/\ \A i \in TriggerPositions : AllTappedBefore(i)
        /\ \A b \in Bundles : compiler[b].pass > 0 => tapped[b]
        /\ subscription.state = "cold" => TriggerPositions = {}
        /\ subscription.state # "cold" =>
             /\ Cardinality(TriggerPositions) = 1
             /\ \A i \in TriggerPositions :
                  history.calls[i].call = (IF workerConfig.watch THEN "watch" ELSE "run"))
  /\ [][subscription.state # "cold" => history'.calls = history.calls]_vars

\* watch() was called after the eight taps and the compiler of foo is in its
\* second pass
C33_Witness ==
  /\ workerConfig.watch
  /\ Len(history.calls) = 9
  /\ history.calls[9].call = "watch"
  /\ compiler["foo"] = [phase |-> "running", pass |-> 2]
  /\ Len(msgs["foo"]) = 3


(***************************************************************************)
(* Properties of the background cache writes                               *)
(***************************************************************************)
\* C34 as stated: in watch mode the cache writes of one bundle happen in the
\* order of its passes, so that the record of an older pass never replaces
\* the record of a newer pass and, once every getHashes call has settled, the
\* store holds the record of the most recent successful pass
C34_AsStated ==
  [][\A b \in Bundles :
       (workerConfig.watch /\ history'.stored[b] < history.stored[b]) =>
         cache'[b] = cache[b]]_vars


(***************************************************************************)
(* A watching run during which source files are edited                     *)
(***************************************************************************)
\* the files edited while the optimizer watches: public/index.ts of the bundle
WatchedPaths == {8}

\* the contents a file is saved with
SavedContents == <<"h1", "h2">>

\* a file is saved with other content; getHashes reads whatever is on disk
\* when it runs
ModifyFile(p) ==
  /\ NoTick
  /\ disk' = [disk EXCEPT ![p] = IF @ = SavedContents[1] THEN SavedContents[2]
                                  ELSE SavedContents[1]]
  /\ UNCHANGED <<cache, cacheEvents, compilerVars, bundleVars>>

InitWatch ==
  /\ cache = [b \in Bundles |-> EmptyRecord]
  /\ disk = [p \in Paths |-> "h1"]
  /\ cacheEvents = NoEvents
  /\ NoBundleCalls
  /\ workerConfig = [watch |-> TRUE, profileWebpack |-> FALSE,
                     optimizerCacheKey |-> "optimizerCacheKey"]
  /\ webpackStats = StatsSamples
  /\ InitCompilers

NextWatch ==
  \/ Subscribe
  \/ \E b \in Bundles : WatchRun(b)
  \/ \E b \in Bundles : \E stats \in webpackStats : Done(b, stats)
  \/ \E b \in Bundles : Failed(b)
  \/ \E b \in Bundles : HashesResolved(b)
  \/ \E b \in Bundles : HashesRejected(b)
  \/ \E p \in WatchedPaths : ModifyFile(p)
  \/ Unsubscribe

SpecWatch == InitWatch /\ [][NextWatch]_vars

\* C35 as stated: the cacheKey of a record that is persisted holds, for each
\* referenced file, the content hash the file had when the done handler of the
\* pass ran; an edit between the done handler and the end of getHashes does
\* not show in the record
C35_AsStated ==
  [][\A b \in Bundles : \A job \in hashing[b] \ hashing'[b] :
       history'.stored[b] # history.stored[b] =>
         cache'[b].cacheKey = createCacheKey(b, job.files, job.compiled)]_vars


(***************************************************************************)
(* A single run: multiCompiler.run() and the callbacks node schedules      *)
(***************************************************************************)
InitRun ==
  /\ cache = [b \in Bundles |-> EmptyRecord]
  /\ disk = [p \in Paths |-> "h1"]
  /\ cacheEvents = NoEvents
  /\ NoBundleCalls
  /\ workerConfig \in [watch : {FALSE}, profileWebpack : BOOLEAN,
                       optimizerCacheKey : {"optimizerCacheKey"}]
  /\ webpackStats = StatsSamples
  /\ InitCompilers

NextRun ==
  \/ Subscribe
  \/ \E b \in Bundles : BeforeRun(b)
  \/ \E b \in Bundles : \E stats \in webpackStats : Done(b, stats)
  \/ \E b \in Bundles : Failed(b)
  \/ \E b \in Bundles : Tick(b)
  \/ \E b \in Bundles : HashesResolved(b)
  \/ \E b \in Bundles : HashesRejected(b)
  \/ Unsubscribe

\* node runs every callback queued with process.nextTick; what webpack, the
\* file system and the subscriber do is up to them
SpecRun == InitRun /\ [][NextRun]_vars /\ \A b \in Bundles : WF_vars(Tick(b))

\* exactly one Running and one terminal message were delivered for bundle b
OneRunningOneTerminal(b) ==
  /\ Cardinality({i \in 1..Len(msgs[b]) : msgs[b][i] = Running}) = 1
  /\ Cardinality({i \in 1..Len(msgs[b]) : IsTerminal(msgs[b][i])}) = 1
  /\ Len(msgs[b]) = 2

\* C36: without watch, when the compiler of every bundle comes to a done hook
\* without needAdditionalPass, no failed hook is called, no module of an
\* unexpected type ends the stream with an error and the subscriber stays,
\* the stream of runCompilers completes and has delivered exactly one Running
\* and one terminal message for every bundle.
C36_RunCompletes ==
  (/\ \A b \in Bundles : <>(compiler[b].phase = "done")
   /\ [](\A b \in Bundles : compiler[b].phase # "failed")
   /\ [](subscription.state \notin {"error", "unsubscribed"}))
  => <>[](/\ subscription.state = "complete"
          /\ \A b \in Bundles : OneRunningOneTerminal(b))

\* the run completed after foo went through an additional pass and ended in
\* Success and bar ended in Failure
C36_Witness ==
  /\ ~workerConfig.watch
  /\ subscription.state = "complete"
  /\ additional["foo"] = 1
  /\ msgs["foo"][2].type = "compiler success"
  /\ msgs["bar"] = <<Running, CompilerFailure>>


(***************************************************************************)
(* Properties of passes that end in Failure                                *)
(***************************************************************************)
\* the done hook of a final pass that compiled with errors reaches the subscriber
FailedFinalDone(b, stats) ==
  /\ Done(b, stats)
  /\ Listening(b)
  /\ ~stats.needAdditionalPass
  /\ stats.hasErrors

\* the step delivers one terminal message for b, errors or completes no
\* stream, and queues the completion of b's stream exactly without watch
DeliversTerminal(b) ==
  /\ Len(msgs'[b]) = Len(msgs[b]) + 1
  /\ SubSeq(msgs'[b], 1, Len(msgs[b])) = msgs[b]
  /\ IsTerminal(msgs'[b][Len(msgs'[b])])
  /\ subscription' = subscription
  /\ open' = open
  /\ tick'[b] = ~workerConfig.watch

\* C37: a final pass that ends in Failure delivers the Failure message and,
\* without watch, queues the completion of the bundle's stream as a pass that
\* ends in Success does; the queued completion runs before any other callback
\* unless the subscriber leaves, delivers nothing and completes the bundle's
\* stream; with watch the Failure leaves
\* the stream open, and the next pass of the compiler delivers Running and
\* then its terminal message.
C37_FailureCompletesLikeSuccess ==
  /\ [][\A b \in Bundles : \A stats \in webpackStats :
          FailedFinalDone(b, stats) =>
            (DeliversTerminal(b) /\ msgs'[b][Len(msgs'[b])] = CompilerFailure)]_vars
  /\ [][\A b \in Bundles : \A stats \in webpackStats :
          (SuccessfulFinalDone(b, stats) /\ ~HasUnexpectedModule(stats)) =>
            (DeliversTerminal(b) /\ msgs'[b][Len(msgs'[b])].type = "compiler success")]_vars
  /\ [][(\E b \in Bundles : tick[b]) =>
          /\ msgs' = msgs
          /\ \/ subscription.state = "active" /\ subscription'.state = "unsubscribed"
             \/ \E b \in Bundles :
                  /\ tick[b] /\ ~tick'[b]
                  /\ Listening(b) => ~open'[b]]_vars
  /\ [][\A b \in Bundles :
          (/\ workerConfig.watch
           /\ Listening(b)
           /\ Len(msgs[b]) > 0
           /\ msgs[b][Len(msgs[b])] = CompilerFailure
           /\ compiler'[b].pass > compiler[b].pass) =>
            msgs'[b] = Append(msgs[b], Running)]_vars
  /\ [](\A b \in Bundles :
          (workerConfig.watch /\ Len(msgs[b]) > 0 /\ msgs[b][Len(msgs[b])] = CompilerFailure) =>
            (open[b] /\ ~tick[b] /\ subscription.state # "complete"))

\* with watch, a pass of foo ended in Failure and the next one in Success
C37_Witness ==
  /\ workerConfig.watch
  /\ subscription.state = "active"
  /\ open["foo"]
  /\ Len(msgs["foo"]) = 4
  /\ msgs["foo"][1] = Running
  /\ msgs["foo"][2] = CompilerFailure
  /\ msgs["foo"][3] = Running
  /\ msgs["foo"][4].type = "compiler success"


(***************************************************************************)
(* Properties of the stats.json of profileWebpack                          *)
(***************************************************************************)
\* the done hook of a final pass
FinalDone(b, stats) == Done(b, stats) /\ ~stats.needAdditionalPass

\* stats.json is written in no step without profileWebpack and in no step of
\* a done hook with needAdditionalPass
StatsNeverWrittenOtherwise ==
  /\ ~workerConfig.profileWebpack => statsFile' = statsFile
  /\ \A b \in Bundles : \A stats \in webpackStats :
       (Done(b, stats) /\ stats.needAdditionalPass) => statsFile' = statsFile

\* C38 as stated: with profileWebpack the done hook of every final pass writes
\* stats.json, whether the pass ends in Success or in Failure, and the terminal
\* message is delivered with the file written; without profileWebpack and for
\* a done hook with needAdditionalPass no stats.json is written
C38_AsStated ==
  /\ [][\A b \in Bundles : \A stats \in webpackStats :
          (FinalDone(b, stats) /\ workerConfig.profileWebpack) =>
            statsFile'[b] = compiler[b].pass]_vars
  /\ [][StatsNeverWrittenOtherwise]_vars

\* C38: with profileWebpack the done hook of every final pass that reaches the
\* subscriber writes stats.json, whether the pass ends in Success or in
\* Failure, and a terminal message is delivered only with the file of its pass
\* written; without profileWebpack and for a done hook with needAdditionalPass
\* no stats.json is written
C38_StatsOfDeliveredPasses ==
  /\ [][\A b \in Bundles : \A stats \in webpackStats :
          (FinalDone(b, stats) /\ Listening(b) /\ workerConfig.profileWebpack) =>
            statsFile'[b] = compiler[b].pass]_vars
  /\ [][\A b \in Bundles :
          (/\ workerConfig.profileWebpack
           /\ Len(msgs'[b]) > Len(msgs[b])
           /\ IsTerminal(msgs'[b][Len(msgs'[b])])) =>
            statsFile'[b] = compiler[b].pass]_vars
  /\ [][StatsNeverWrittenOtherwise]_vars

\* with profileWebpack and watch, the second pass of foo ended in Failure
\* after a pass that ended in Success, and stats.json is the one of that pass
C38_Witness ==
  /\ workerConfig.profileWebpack
  /\ workerConfig.watch
  /\ Len(msgs["foo"]) = 4
  /\ msgs["foo"][2].type = "compiler success"
  /\ msgs["foo"][4] = CompilerFailure
  /\ statsFile["foo"] = 2


(***************************************************************************)
(* verifyMessages (src/dev/i18n/integrate_locale_files.ts)                 *)
(***************************************************************************)
\* number of message ids of the default and the localized messages
MaxMessageIds == 2

MessageIds == 1..MaxMessageIds

\* a localized message, by what the two checks do with its text:
\* checkValuesProperty throws for `incompatible`, verifyICUMessage for `malformed`
LocalizedMessages == [incompatible : BOOLEAN, malformed : BOOLEAN]

\* the localized maps of the locale file: a message for some of the ids
LocalizedMaps == UNION {[ids -> LocalizedMessages] : ids \in SUBSET MessageIds}

\* the ignore flags of IntegrateOptions
IgnoreOptions ==
  [ignoreMalformed : BOOLEAN, ignoreIncompatible : BOOLEAN, ignoreUnused : BOOLEAN,
   ignoreMissing : BOOLEAN]

\* [...map.keys()]: the ids of a map in insertion order, ascending here
Keys(ids) ==
  LET upTo[i \in 0..MaxMessageIds] ==
        IF i = 0 THEN <<>>
        ELSE IF i \in ids THEN Append(upTo[i - 1], i) ELSE upTo[i - 1]
  IN upTo[MaxMessageIds]

\* difference(left, right): the values of left that right does not include
RECURSIVE difference(_, _)
difference(left, right) ==
  IF left = <<>> THEN <<>>
  ELSE (IF Head(left) \in Range(right) THEN <<>> ELSE <<Head(left)>>)
         \o difference(Tail(left), right)

\* map.delete(id) for every id of ids
Delete(map, ids) == [id \in DOMAIN map \ ids |-> map[id]]

\* the unused translations are reported, or removed with ignoreUnused
UnusedStep(acc, localizedMessagesIds, defaultMessagesIds, options) ==
  LET unusedTranslations == difference(localizedMessagesIds, defaultMessagesIds)
  IN IF Len(unusedTranslations) > 0
       THEN IF ~options.ignoreUnused
              THEN [acc EXCEPT !.errors =
                      Append(@, [kind |-> "unused", ids |-> unusedTranslations])]
            ELSE [acc EXCEPT !.map = Delete(@, Range(unusedTranslations))]
     ELSE acc

\* the missing translations are reported unless ignoreMissing is set; the ids
\* are those the localized map had when the call began
MissingStep(acc, localizedMessagesIds, defaultMessagesIds, options) ==
  IF ~options.ignoreMissing
    THEN LET missingTranslations == difference(defaultMessagesIds, localizedMessagesIds)
         IN IF Len(missingTranslations) > 0
              THEN [acc EXCEPT !.errors =
                      Append(@, [kind |-> "missing", ids |-> missingTranslations])]
            ELSE acc
  ELSE acc

\* checkValuesProperty(...) throws: the message is incompatible, or the map
\* has no message for the id and reading `message.text` throws
CheckValuesThrows(map, messageId) ==
  IF messageId \in DOMAIN map THEN map[messageId].incompatible ELSE TRUE

\* verifyICUMessage(...) throws: the message is malformed; for an id the map
\* has no message for, it is called with undefined
VerifyICUThrows(map, messageId, icuThrowsOnUndefined) ==
  IF messageId \in DOMAIN map THEN map[messageId].malformed ELSE icuThrowsOnUndefined

\* mutant: an incompatible translation is removed whatever ignoreIncompatible says
MutIncompatibleAlwaysRemoved(acc, messageId, defaults, options) ==
  IF messageId \in defaults /\ CheckValuesThrows(acc.map, messageId)
    THEN [acc EXCEPT !.map = Delete(@, {messageId}),
                     !.warnings = Append(@, [kind |-> "incompatible", ids |-> <<messageId>>])]
  ELSE acc

\* the body of the first loop for one id
IncompatibleStep(acc, messageId, defaults, options) ==
  IF messageId \in defaults /\ CheckValuesThrows(acc.map, messageId)
    THEN IF options.ignoreIncompatible
           THEN [acc EXCEPT !.map = Delete(@, {messageId}),
                            !.warnings =
                              Append(@, [kind |-> "incompatible", ids |-> <<messageId>>])]
         ELSE [acc EXCEPT !.errors =
                 Append(@, [kind |-> "incompatible", ids |-> <<messageId>>])]
  ELSE acc

\* the body of the second loop for one id
MalformedStep(acc, messageId, defaults, options, icuThrowsOnUndefined) ==
  IF messageId \in defaults /\ VerifyICUThrows(acc.map, messageId, icuThrowsOnUndefined)
    THEN IF options.ignoreMalformed
           THEN [acc EXCEPT !.map = Delete(@, {messageId}),
                            !.warnings =
                              Append(@, [kind |-> "malformed", ids |-> <<messageId>>])]
         ELSE [acc EXCEPT !.errors =
                 Append(@, [kind |-> "malformed", ids |-> <<messageId>>])]
  ELSE acc

\* for (const messageId of localizedMessagesIds): the first loop
RECURSIVE IncompatibleLoop(_, _, _, _)
IncompatibleLoop(acc, ids, defaults, options) ==
  IF ids = <<>> THEN acc
  ELSE IncompatibleLoop(IncompatibleStep(acc, Head(ids), defaults, options), Tail(ids),
                        defaults, options)

\* for (const messageId of localizedMessagesIds): the second loop
RECURSIVE MalformedLoop(_, _, _, _, _)
MalformedLoop(acc, ids, defaults, options, icuThrowsOnUndefined) ==
  IF ids = <<>> THEN acc
  ELSE MalformedLoop(MalformedStep(acc, Head(ids), defaults, options, icuThrowsOnUndefined),
                     Tail(ids), defaults, options, icuThrowsOnUndefined)

\* verifyMessages(localizedMessagesMap, defaultMessagesMap, options): the map
\* it leaves, the parts of errorMessage and the warnings logged
verifyMessages(localized, defaults, options, icuThrowsOnUndefined) ==
  LET defaultMessagesIds == Keys(defaults)
      localizedMessagesIds == Keys(DOMAIN localized)
      begun == [map |-> localized, errors |-> <<>>, warnings |-> <<>>]
      unused == UnusedStep(begun, localizedMessagesIds, defaultMessagesIds, options)
      missing == MissingStep(unused, localizedMessagesIds, defaultMessagesIds, options)
      checked == IncompatibleLoop(missing, localizedMessagesIds, defaults, options)
  IN MalformedLoop(checked, localizedMessagesIds, defaults, options, icuThrowsOnUndefined)

\* the call under test runs: it throws one error when errorMessage is not empty
VerifyMessages ==
  /\ verifyCall.state = "called"
  /\ LET done == verifyMessages(verifyCall.localized, verifyCall.defaults,
                                verifyCall.options, verifyCall.icuThrowsOnUndefined)
     IN verifyCall' = [verifyCall EXCEPT
                         !.state = IF done.errors # <<>> THEN "thrown" ELSE "returned",
                         !.map = done.map,
                         !.errors = done.errors,
                         !.warnings = done.warnings]
  /\ UNCHANGED <<cacheVars, compilerVars, keyVars, parseVars, depsVars, storeVars, searchVars>>

\* a verifyMessages call on any localized map, any default ids and any flags;
\* what verifyICUMessage does with undefined is left open
InitVerify ==
  /\ NoRun
  /\ NoKeyCall
  /\ NoParseCall
  /\ NoDepsCall
  /\ NoStoreCall
  /\ NoSearchSource
  /\ \E localized \in LocalizedMaps, defaults \in SUBSET MessageIds,
        options \in IgnoreOptions, icuThrowsOnUndefined \in BOOLEAN :
       verifyCall = [state |-> "called", localized |-> localized, defaults |-> defaults,
                     options |-> options, icuThrowsOnUndefined |-> icuThrowsOnUndefined,
                     map |-> localized, errors |-> <<>>, warnings |-> <<>>]

NextVerify == VerifyMessages

SpecVerify == InitVerify /\ [][NextVerify]_vars


(***************************************************************************)
(* Properties of verifyMessages                                            *)
(***************************************************************************)
\* the ids of the localized map as it was passed in that no default message has
UnusedIds == DOMAIN verifyCall.localized \ verifyCall.defaults

\* the default ids the localized map as it was passed in has no message for
MissingIds == verifyCall.defaults \ DOMAIN verifyCall.localized

\* the translations of default ids that were passed in
IncompatibleIds ==
  {id \in DOMAIN verifyCall.localized \cap verifyCall.defaults :
     verifyCall.localized[id].incompatible}

MalformedIds ==
  {id \in DOMAIN verifyCall.localized \cap verifyCall.defaults :
     verifyCall.localized[id].malformed}

\* the ids the call removed from the localized map
RemovedIds == DOMAIN verifyCall.localized \ DOMAIN verifyCall.map

\* the thrown error reports `ids` under `kind`
Reports(kind, ids) ==
  \E i \in 1..Len(verifyCall.errors) : verifyCall.errors[i] = [kind |-> kind, ids |-> ids]

\* with the three removing flags set the map on return holds default ids only,
\* with the messages passed in, and what was removed was unused, incompatible
\* or malformed
OnlyBadIdsRemoved ==
  (/\ verifyCall.options.ignoreUnused
   /\ verifyCall.options.ignoreIncompatible
   /\ verifyCall.options.ignoreMalformed) =>
    /\ DOMAIN verifyCall.map \subseteq verifyCall.defaults
    /\ \A id \in DOMAIN verifyCall.map : verifyCall.map[id] = verifyCall.localized[id]
    /\ RemovedIds \subseteq UnusedIds \cup IncompatibleIds \cup MalformedIds

\* the one error thrown reports every violation the call found
AllViolationsReported ==
  /\ (UnusedIds # {} /\ ~verifyCall.options.ignoreUnused) =>
       Reports("unused", Keys(UnusedIds))
  /\ (MissingIds # {} /\ ~verifyCall.options.ignoreMissing) =>
       Reports("missing", Keys(MissingIds))
  /\ \A id \in IncompatibleIds :
       ~verifyCall.options.ignoreIncompatible => Reports("incompatible", <<id>>)
  /\ \A id \in MalformedIds :
       (~verifyCall.options.ignoreMalformed
          /\ ~(id \in IncompatibleIds /\ verifyCall.options.ignoreIncompatible)) =>
         Reports("malformed", <<id>>)

\* C39 as stated: the call returns only if, judged on the localized map as it
\* is on return, no id is unused unless ignoreUnused is set, no default id is
\* missing unless ignoreMissing is set and no translation is incompatible or
\* malformed unless its flag is set; with the three removing flags set only
\* unused, incompatible and malformed ids were removed; a throw reports every
\* violation
C39_AsStated ==
  /\ verifyCall.state = "returned" =>
       /\ ~verifyCall.options.ignoreUnused =>
            DOMAIN verifyCall.map \subseteq verifyCall.defaults
       /\ ~verifyCall.options.ignoreMissing =>
            verifyCall.defaults \subseteq DOMAIN verifyCall.map
       /\ ~verifyCall.options.ignoreIncompatible =>
            \A id \in DOMAIN verifyCall.map \cap verifyCall.defaults :
              ~verifyCall.map[id].incompatible
       /\ ~verifyCall.options.ignoreMalformed =>
            \A id \in DOMAIN verifyCall.map \cap verifyCall.defaults :
              ~verifyCall.map[id].malformed
       /\ OnlyBadIdsRemoved
  /\ verifyCall.state = "thrown" => AllViolationsReported

\* C39: the call returns only if no id of the localized map is unused unless
\* ignoreUnused is set, no default id is missing from the localized map as it
\* was passed in unless ignoreMissing is set, no translation passed in is
\* incompatible unless ignoreIncompatible is set, no translation that was not
\* removed as incompatible is malformed unless ignoreMalformed is set, and no
\* translation left in the map is incompatible or malformed; with the three
\* removing flags set only unused, incompatible and malformed ids were
\* removed; a throw reports every violation found in one error.
C39_ReturnsOnlyWithoutViolations ==
  /\ verifyCall.state = "returned" =>
       /\ verifyCall.errors = <<>>
       /\ ~verifyCall.options.ignoreUnused =>
            (UnusedIds = {} /\ DOMAIN verifyCall.map \subseteq verifyCall.defaults)
       /\ ~verifyCall.options.ignoreMissing => MissingIds = {}
       /\ ~verifyCall.options.ignoreIncompatible => IncompatibleIds = {}
       /\ ~verifyCall.options.ignoreMalformed =>
            \A id \in MalformedIds :
              id \in IncompatibleIds /\ verifyCall.options.ignoreIncompatible
       /\ \A id \in DOMAIN verifyCall.map \cap verifyCall.defaults :
            ~verifyCall.map[id].incompatible /\ ~verifyCall.map[id].malformed
       /\ OnlyBadIdsRemoved
  /\ verifyCall.state = "thrown" =>
       (verifyCall.errors # <<>> /\ AllViolationsReported)

\* with ignoreMissing off and ignoreIncompatible on, the call removed the
\* incompatible translation of a default id and returned
C39_Witness ==
  /\ verifyCall.state = "returned"
  /\ ~verifyCall.options.ignoreMissing
  /\ verifyCall.options.ignoreIncompatible
  /\ verifyCall.defaults = {1, 2}
  /\ DOMAIN verifyCall.localized = {1, 2}
  /\ verifyCall.localized[1].incompatible
  /\ DOMAIN verifyCall.map = {2}

====
